---- MODULE Spec2Model ----
(***************************************************************************)
(* Floating-IP lifecycle of nova-network (nova/network/floating_ips.py):   *)
(* allocation and release gated by the quota engine, association and       *)
(* disassociation routed to the authoritative network host, with the       *)
(* store, the quota engine, the notifier and the L3 driver as shared       *)
(* state.  Every call of the manager is a process that advances one        *)
(* blocking external call (store, quota, driver, notifier, RPC) per step.  *)
(***************************************************************************)
EXTENDS Integers, FiniteSets, Sequences, TLC

\* ---------------------------------------------------------------- bounds
MaxOps == 3          \* manager calls issued in one behaviour
NumAddrs == 2        \* floating addresses seeded in the store
QuotaLimit == 1      \* the per-project limit L of the floating_ips resource

\* -------------------------------------------------------------- universe
Slots == {"t1", "t2"}            \* request threads running at the same time
Hosts == {"h1", "h2"}
Projects == {"A", "B"}
Addrs == 1..NumAddrs
NoAddr == 0                      \* floating_ip of a call before the store returned one
None == "none"

Contexts ==
    { [project_id |-> "A", is_admin |-> FALSE],
      [project_id |-> "B", is_admin |-> FALSE],
      [project_id |-> "A", is_admin |-> TRUE] }

\* The fixed side is read-only for the manager: two fixed addresses, the
\* first on a single-host network served by h1, the second on a multi_host
\* network whose instance runs on h2.
FixedIPs == {"x1", "x2"}

FixedIpGet(x) ==
    IF x = "x1"
    THEN [address |-> "x1", instance_uuid |-> "i1", network_id |-> "n1"]
    ELSE [address |-> "x2", instance_uuid |-> "i2", network_id |-> "n2"]

NetworkGet(n) ==
    IF n = "n1"
    THEN [multi_host |-> FALSE, host |-> "h1"]
    ELSE [multi_host |-> TRUE, host |-> None]

InstanceGet(i) ==
    IF i = "i1" THEN [host |-> "h2"] ELSE [host |-> "h2"]

\* CONF.default_floating_pool and the pool column of the seeded addresses.
DefaultPool == "nova"

PoolOf(a) == "nova"

\* The DNS domains and the host names an entry can be made for.
Domains == {"example.org"}

Names == {"www"}

\* The availability zones a private domain may be bound to.
Zones == {"az1", "az2"}

\* floating_ip['interface'] of every seeded address.
InterfaceOf(a) == "eth1"

VARIABLES
    fip,        \* store: the FloatingIP records, by address
    quota,      \* quota engine: usage of floating_ips, by project
    rules,      \* L3 driver: forwarding rules installed, by host
    lock,       \* utils.synchronized: holder of the lock named by an address, by host
    calls,      \* the manager calls in flight, by request thread
    started,    \* calls issued so far
    dns         \* the DNS domains of the store and of the two drivers, and
                \* the entries of the floating DNS driver

vars == <<fip, quota, rules, lock, calls, started, dns>>

\* ------------------------------------------------------------- the calls
NoCtx == [project_id |-> "A", is_admin |-> FALSE]

\* The locals of a call.  nStore, nDrv, nRpc and nEvt count the store
\* writes, driver commands, RPCs and events it has issued, nDns the
\* DNS entries it has deleted; nReserve, nCommit
\* and nRollback the quota calls that returned without raising.  note says
\* which early return a successful call took.  host is the manager the
\* call is running on; self_host keeps the manager that received an
\* associate while its nested disassociate runs; msg is the text of the
\* process execution error the handler of do_associate has caught.
\* addrs, source, dest and host_arg are the arguments of a migration
\* phase, idx its place in addrs and skipped the addresses it found stale.
\* For deallocate_for_instance addrs is the list of floating addresses it
\* fetched for the fixed address of the instance, and autos those of the
\* list whose fetched record is auto_assigned.
IdleCall ==
    [ op |-> "none", pc |-> "idle", ctx |-> NoCtx, host |-> "h1",
      self_host |-> "h1",
      project_id |-> "A", pool |-> DefaultPool, a |-> NoAddr, fixed |-> None,
      use_quota |-> FALSE, resv |-> 0, orig |-> None, routed |-> None,
      got |-> None, iface |-> FALSE, nested |-> FALSE, result |-> None,
      err |-> None, msg |-> << >>, note |-> None, down |-> FALSE,
      addrs |-> << >>, idx |-> 0, skipped |-> {}, autos |-> {},
      source |-> None,
      dest |-> None, host_arg |-> None,
      nStore |-> 0, nDrv |-> 0, nRpc |-> 0, nEvt |-> 0, nDns |-> 0,
      nReserve |-> 0, nCommit |-> 0, nRollback |-> 0 ]

\* An external call that can raise draws its outcome here.
Outcomes(canFail) == IF canFail THEN {TRUE, FALSE} ELSE {TRUE}

\* A call that has returned leaves its result, for associate the value it
\* returned, and the record of the external calls it made; its locals are
\* gone.
Finish(r, res) ==
    [IdleCall EXCEPT !.op = r.op, !.pc = "done", !.result = res,
                     !.orig = (IF res = "ok" THEN r.orig ELSE None),
                     !.note = (IF res = "ok" THEN r.note ELSE None),
                     !.nStore = r.nStore, !.nDrv = r.nDrv, !.nRpc = r.nRpc,
                     !.nEvt = r.nEvt, !.nDns = r.nDns, !.nReserve = r.nReserve,
                     !.nCommit = r.nCommit, !.nRollback = r.nRollback]

Set(c, r) == calls' = [calls EXCEPT ![c] = r]

At(c, label) == calls[c].pc = label

\* ---------------------------------------------- deallocate_for_instance
\* line 188: the floating addresses are done; what is left is the call of
\* the inherited deallocate_for_instance.
DfiReturn(r) ==
    [Finish(r, "ok") EXCEPT !.addrs = r.addrs, !.autos = r.autos,
                            !.fixed = r.fixed]

\* line 174: the for loop moves to the next floating address, or ends.
DfiAdvance(r) ==
    IF r.idx < Len(r.addrs)
    THEN [r EXCEPT !.pc = "dfi_dis", !.idx = @ + 1, !.a = r.addrs[r.idx + 1]]
    ELSE DfiReturn(r)

\* lines 183-186: deallocate_floating_ip is called when the record that was
\* listed is auto_assigned.
DfiAfterDis(r) ==
    IF r.a \in r.autos
    THEN [r EXCEPT !.pc = "dfi_dealloc"]
    ELSE DfiAdvance(r)

\* line 289: deallocate_floating_ip returns, to its caller or to
\* deallocate_for_instance (line 185).
DeallocReturn(r) ==
    IF r.op = "deallocate_for_instance"
    THEN DfiAdvance([r EXCEPT !.use_quota = FALSE, !.resv = 0])
    ELSE Finish(r, "ok")

\* ------------------------------------------------------------ the store
Unowned == [project_id |-> None, fixed_ip_id |-> None, host |-> None,
            auto_assigned |-> FALSE]

\* db.floating_ip_allocate_address: the unowned, unbound addresses of a pool.
Allocatable(pool) ==
    { a \in Addrs : /\ PoolOf(a) = pool
                    /\ fip[a].project_id = None
                    /\ fip[a].fixed_ip_id = None }

DbAllocateAddress(a, project) == [fip EXCEPT ![a].project_id = project]

\* db.floating_ip_deallocate
DbDeallocate(a) ==
    [fip EXCEPT ![a].project_id = None, ![a].host = None,
                ![a].auto_assigned = FALSE]

\* db.floating_ip_set_auto_assigned
DbSetAutoAssigned(a) == [fip EXCEPT ![a].auto_assigned = TRUE]

\* db.floating_ip_fixed_ip_associate: no row changes, and nothing is
\* returned, when the address is already bound to that fixed address.
DbAssociateIsNoop(a, x) == fip[a].fixed_ip_id = x

DbAssociate(a, x, host) == [fip EXCEPT ![a].fixed_ip_id = x, ![a].host = host]

\* db.floating_ip_disassociate: returns the fixed address that was bound.
DbDisassociate(a) == [fip EXCEPT ![a].fixed_ip_id = None, ![a].host = None]

\* ------------------------------------------------------ the quota engine
Total(p) == quota[p].in_use + quota[p].reserved

\* QUOTAS.reserve raises OverQuota for a positive delta that passes the limit.
OverQuota(p, delta) == delta > 0 /\ Total(p) + delta > QuotaLimit

\* A positive delta is held as reserved until it is committed or rolled
\* back; a negative one only takes effect when it is committed.
QuotaReserve(p, delta) ==
    IF delta > 0
    THEN [quota EXCEPT ![p].reserved = @ + delta]
    ELSE quota

QuotaCommit(p, delta) ==
    IF delta > 0
    THEN [quota EXCEPT ![p].in_use = @ + delta, ![p].reserved = @ - delta]
    ELSE [quota EXCEPT ![p].in_use = @ + delta]

QuotaRollback(p, delta) ==
    IF delta > 0
    THEN [quota EXCEPT ![p].reserved = @ - delta]
    ELSE quota

\* -------------------------------------------------- the ownership check
\* A variant that turns away only the unallocated address.
OwnedOrAnyProject(ctx, floating_ip) ==
    ctx.is_admin \/ floating_ip.project_id # None

\* A variant that lets any caller through on an unallocated address.
OwnedOrUnallocated(ctx, floating_ip) ==
    \/ ctx.is_admin
    \/ floating_ip.project_id = ctx.project_id
    \/ floating_ip.project_id = None

\* _floating_ip_owned_by_project: TRUE when it returns, FALSE when it
\* raises NotAuthorized.
FloatingIpOwnedByProject(ctx, floating_ip) ==
    IF ctx.is_admin
    THEN TRUE
    ELSE floating_ip.project_id = ctx.project_id


\* ------------------------------------------------------------------ DNS
\* The domains are those registered in the store (db.dnsdomain_list), each
\* with its record (db.dnsdomain_get), and those each driver lists
\* (get_domains); the entries are those of the floating DNS driver, each a
\* domain, a name and an address; last is what delete_dns_domain or
\* get_dns_domains returned, until the next DNS call is made.
NoRef == [scope |-> None, availability_zone |-> None, project_id |-> None]

NoReturn == [op |-> None, domain |-> None, result |-> None, listed |-> {}]

NoDns ==
    [registered |-> {}, ref |-> [d \in Domains |-> NoRef], floating |-> {},
     instance |-> {}, entries |-> {}, last |-> NoReturn]

\* db.dnsdomain_register_for_zone: the record is private to the zone.
DbRegisterForZone(av_zone) ==
    [scope |-> "private", availability_zone |-> av_zone, project_id |-> None]

\* db.dnsdomain_register_for_project: the record is public, of the project.
DbRegisterForProject(project) ==
    [scope |-> "public", availability_zone |-> None, project_id |-> project]

\* What delete_dns_domain leaves to its caller.
Returned(op, d, ok) ==
    [op |-> op, domain |-> d, result |-> IF ok THEN "ok" ELSE "Error",
     listed |-> {}]

\* lines 615-635: get_dns_domains keeps the domains of the store that one
\* of the two drivers lists, and ignores the others with a warning.
GetDnsDomains ==
    { d \in dns.registered : d \in dns.floating \/ d \in dns.instance }

\* lines 600-613: _prepare_domain_entry reads the record of the domain and
\* gives its zone when the scope is private, its project otherwise.
PrepareDomainEntry(d) ==
    LET domainref == dns.ref[d]
    IN IF domainref.scope = "private"
       THEN [domain |-> d, scope |-> domainref.scope,
             availability_zone |-> domainref.availability_zone]
       ELSE [domain |-> d, scope |-> domainref.scope,
             project |-> domainref.project_id]

\* lines 657-659: get_dns_entries_by_address asks the floating DNS driver
\* for the names that point at the address in the domain.
GetDnsEntriesByAddress(a, d) ==
    { e.name : e \in { f \in dns.entries : f.domain = d /\ f.address = a } }

\* lines 648-655: _delete_all_entries_for_ip deletes, in each of these
\* domains, the entry of every name found (delete_entry(name, domain)).
DeleteAllEntriesForIp(a) ==
    { e \in dns.entries :
        ~(e.domain \in GetDnsDomains /\ e.name \in GetDnsEntriesByAddress(a, e.domain)) }
\* ------------------------------------------------- allocate_floating_ip
\* lines 207-212 (and 118-121 for allocate_for_instance, which passes
\* auto_assigned and later associates with fixed).
StartAllocate(op, ctx, host, project, auto, fixed) ==
    [IdleCall EXCEPT !.op = op, !.pc = "alloc_reserve", !.ctx = ctx,
                     !.host = host, !.project_id = project, !.fixed = fixed,
                     !.use_quota = ~auto]

\* line 243: the address is returned, to the caller or to
\* allocate_for_instance (line 120).
AllocReturn(r) ==
    IF r.op = "allocate_for_instance"
    THEN [r EXCEPT !.pc = "afi_set_auto"]
    ELSE Finish(r, "ok")

\* lines 238-241: the handler of the try block, entered by any exception.
AllocFailed(r, res) ==
    IF r.use_quota
    THEN [r EXCEPT !.pc = "alloc_rollback", !.err = res]
    ELSE Finish(r, res)

\* A variant that goes on to the store when the reservation is refused.
AllocReserveUnchecked(c, env) ==
    /\ At(c, "alloc_reserve")
    /\ LET r == calls[c]
           p == r.ctx.project_id
       IN IF ~r.use_quota \/ OverQuota(p, 1)
          THEN /\ Set(c, [r EXCEPT !.pc = "alloc_assign"])
               /\ UNCHANGED quota
          ELSE \E ok \in Outcomes(env.qfaults) :
                 IF ok
                 THEN /\ quota' = QuotaReserve(p, 1)
                      /\ Set(c, [r EXCEPT !.pc = "alloc_assign", !.resv = 1,
                                          !.nReserve = @ + 1])
                 ELSE /\ Set(c, Finish(r, "Error"))
                      /\ UNCHANGED quota
    /\ UNCHANGED <<fip, rules, lock, started, dns>>

\* A variant that reserves for an auto_assigned allocation too.
AllocReserveAlways(c, env) ==
    /\ At(c, "alloc_reserve")
    /\ LET r == calls[c]
           p == r.ctx.project_id
       IN IF OverQuota(p, 1)
          THEN /\ Set(c, Finish(r, "FloatingIpLimitExceeded"))
               /\ UNCHANGED quota
          ELSE \E ok \in Outcomes(env.qfaults) :
                 IF ok
                 THEN /\ quota' = QuotaReserve(p, 1)
                      /\ Set(c, [r EXCEPT !.pc = "alloc_assign", !.resv = 1,
                                          !.nReserve = @ + 1])
                 ELSE /\ Set(c, Finish(r, "Error"))
                      /\ UNCHANGED quota
    /\ UNCHANGED <<fip, rules, lock, started, dns>>

\* lines 216-223: the reservation of one floating_ips unit.
AllocReserve(c, env) ==
    /\ At(c, "alloc_reserve")
    /\ LET r == calls[c]
           p == r.ctx.project_id
       IN IF ~r.use_quota
          THEN /\ Set(c, [r EXCEPT !.pc = "alloc_assign"])
               /\ UNCHANGED quota
          ELSE IF OverQuota(p, 1)
          THEN /\ Set(c, Finish(r, "FloatingIpLimitExceeded"))
               /\ UNCHANGED quota
          ELSE \E ok \in Outcomes(env.qfaults) :
                 IF ok
                 THEN /\ quota' = QuotaReserve(p, 1)
                      /\ Set(c, [r EXCEPT !.pc = "alloc_assign", !.resv = 1,
                                          !.nReserve = @ + 1])
                 ELSE /\ Set(c, Finish(r, "Error"))
                      /\ UNCHANGED quota
    /\ UNCHANGED <<fip, rules, lock, started, dns>>

\* lines 226-228: the store assigns an unowned address of the pool.
AllocAssign(c, env) ==
    /\ At(c, "alloc_assign")
    /\ LET r == calls[c]
       IN \E ok \in Outcomes(env.qfaults) :
            IF ~ok
            THEN /\ Set(c, AllocFailed(r, "Error"))
                 /\ UNCHANGED fip
            ELSE IF Allocatable(r.pool) = {}
            THEN /\ Set(c, AllocFailed(r, "NoMoreFloatingIps"))
                 /\ UNCHANGED fip
            ELSE \E a \in Allocatable(r.pool) :
                   /\ fip' = DbAllocateAddress(a, r.project_id)
                   /\ Set(c, [r EXCEPT !.pc = "alloc_notify", !.a = a,
                                       !.nStore = @ + 1])
    /\ UNCHANGED <<quota, rules, lock, started, dns>>

\* lines 229-233: the allocation event.
AllocNotify(c, env) ==
    /\ At(c, "alloc_notify")
    /\ LET r == calls[c]
       IN \E ok \in Outcomes(env.qfaults) :
            IF ~ok
            THEN Set(c, AllocFailed(r, "Error"))
            ELSE IF r.use_quota
            THEN Set(c, [r EXCEPT !.pc = "alloc_commit", !.nEvt = @ + 1])
            ELSE Set(c, AllocReturn([r EXCEPT !.nEvt = @ + 1]))
    /\ UNCHANGED <<fip, quota, rules, lock, started, dns>>

\* lines 236-237: the commit, inside the try block.
AllocCommit(c, env) ==
    /\ At(c, "alloc_commit")
    /\ LET r == calls[c]
       IN \E ok \in Outcomes(env.qfaults) :
            IF ~ok
            THEN /\ Set(c, AllocFailed(r, "Error"))
                 /\ UNCHANGED quota
            ELSE /\ quota' = QuotaCommit(r.ctx.project_id, r.resv)
                 /\ Set(c, AllocReturn([r EXCEPT !.nCommit = @ + 1]))
    /\ UNCHANGED <<fip, rules, lock, started, dns>>

\* lines 239-241: the rollback, after which the exception is raised again.
AllocRollback(c, env) ==
    /\ At(c, "alloc_rollback")
    /\ LET r == calls[c]
       IN /\ quota' = QuotaRollback(r.ctx.project_id, r.resv)
          /\ Set(c, Finish([r EXCEPT !.nRollback = @ + 1], r.err))
    /\ UNCHANGED <<fip, rules, lock, started, dns>>

\* ----------------------------------------------- deallocate_floating_ip
\* A variant that checks the owner before the auto_assigned flag.
DeallocChecksOwnerFirst(ctx, floating_ip, affect_auto_assigned) ==
    IF ~FloatingIpOwnedByProject(ctx, floating_ip)
    THEN "NotAuthorized"
    ELSE IF ~affect_auto_assigned /\ floating_ip.auto_assigned
    THEN "skip"
    ELSE IF floating_ip.fixed_ip_id # None
    THEN "FloatingIpAssociated"
    ELSE "pass"

\* A variant that does not test the binding.
DeallocChecksNoBindingTest(ctx, floating_ip, affect_auto_assigned) ==
    IF ~affect_auto_assigned /\ floating_ip.auto_assigned
    THEN "skip"
    ELSE IF ~FloatingIpOwnedByProject(ctx, floating_ip)
    THEN "NotAuthorized"
    ELSE "pass"

\* lines 251-262, on the record fetched at line 249: the auto_assigned skip,
\* the ownership check, the check that the address is not associated.
DeallocChecks(ctx, floating_ip, affect_auto_assigned) ==
    IF ~affect_auto_assigned /\ floating_ip.auto_assigned
    THEN "skip"
    ELSE IF ~FloatingIpOwnedByProject(ctx, floating_ip)
    THEN "NotAuthorized"
    ELSE IF floating_ip.fixed_ip_id # None
    THEN "FloatingIpAssociated"
    ELSE "pass"

\* lines 246-262: where the call stands once the record is fetched and checked.
StartDeallocate(ctx, a, affect) ==
    LET r == [IdleCall EXCEPT !.op = "deallocate", !.ctx = ctx, !.a = a]
        chk == DeallocChecks(ctx, fip[a], affect)
    IN IF chk = "skip"
       THEN Finish([r EXCEPT !.note = "skip"], "ok")
       ELSE IF chk # "pass"
       THEN Finish(r, chk)
       ELSE [r EXCEPT !.pc = "dealloc_dns",
                      !.use_quota = ~fip[a].auto_assigned]

\* A variant that leaves the DNS entries of the address in place.
DeallocDnsKeepsEntries(c, env) ==
    /\ At(c, "dealloc_dns")
    /\ Set(c, [calls[c] EXCEPT !.pc = "dealloc_notify"])
    /\ UNCHANGED <<fip, quota, rules, lock, started, dns>>

\* lines 264-266: the DNS entries that point at the address are deleted.
DeallocDns(c, env) ==
    /\ At(c, "dealloc_dns")
    /\ LET r == calls[c]
       IN \E ok \in Outcomes(env.qfaults) :
            IF ok
            THEN /\ dns' = [dns EXCEPT !.entries = DeleteAllEntriesForIp(r.a)]
                 /\ Set(c, [r EXCEPT !.pc = "dealloc_notify",
                                     !.nDns = Cardinality(dns.entries)
                                        - Cardinality(DeleteAllEntriesForIp(r.a))])
            ELSE /\ Set(c, Finish(r, "Error"))
                 /\ UNCHANGED dns
    /\ UNCHANGED <<fip, quota, rules, lock, started>>

\* lines 267-272: the deallocation event is emitted.
DeallocNotify(c, env) ==
    /\ At(c, "dealloc_notify")
    /\ LET r == calls[c]
       IN \E ok \in Outcomes(env.qfaults) :
            IF ok
            THEN Set(c, [r EXCEPT !.pc = "dealloc_reserve", !.nEvt = @ + 1])
            ELSE Set(c, Finish(r, "Error"))
    /\ UNCHANGED <<fip, quota, rules, lock, started, dns>>

\* A variant in which a failed reservation ends the call.
DeallocReserveFatal(c, env) ==
    /\ At(c, "dealloc_reserve")
    /\ LET r == calls[c]
       IN IF ~r.use_quota
          THEN /\ Set(c, [r EXCEPT !.pc = "dealloc_release"])
               /\ UNCHANGED quota
          ELSE \E ok \in Outcomes(env.qfaults) :
                 IF ok
                 THEN /\ quota' = QuotaReserve(r.ctx.project_id, -1)
                      /\ Set(c, [r EXCEPT !.pc = "dealloc_release", !.resv = -1,
                                          !.nReserve = @ + 1])
                 ELSE /\ Set(c, Finish(r, "Error"))
                      /\ UNCHANGED quota
    /\ UNCHANGED <<fip, rules, lock, started, dns>>

\* lines 274-283: the reservation of minus one unit; any failure is logged.
DeallocReserve(c, env) ==
    /\ At(c, "dealloc_reserve")
    /\ LET r == calls[c]
       IN IF ~r.use_quota
          THEN /\ Set(c, [r EXCEPT !.pc = "dealloc_release"])
               /\ UNCHANGED quota
          ELSE \E ok \in Outcomes(env.qfaults) :
                 IF ok
                 THEN /\ quota' = QuotaReserve(r.ctx.project_id, -1)
                      /\ Set(c, [r EXCEPT !.pc = "dealloc_release", !.resv = -1,
                                          !.nReserve = @ + 1])
                 ELSE /\ Set(c, [r EXCEPT !.pc = "dealloc_release"])
                      /\ UNCHANGED quota
    /\ UNCHANGED <<fip, rules, lock, started, dns>>

\* A variant that goes on without the store having released the address.
DeallocReleaseKeepsOwner(c, env) ==
    /\ At(c, "dealloc_release")
    /\ LET r == calls[c]
       IN IF r.resv # 0
          THEN Set(c, [r EXCEPT !.pc = "dealloc_commit", !.nStore = @ + 1])
          ELSE Set(c, Finish([r EXCEPT !.nStore = @ + 1], "ok"))
    /\ UNCHANGED <<fip, quota, rules, lock, started, dns>>

\* line 285: the address is released in the store.
DeallocRelease(c, env) ==
    /\ At(c, "dealloc_release")
    /\ LET r == calls[c]
       IN \E ok \in Outcomes(env.qfaults) :
            IF ~ok
            THEN /\ Set(c, Finish(r, "Error"))
                 /\ UNCHANGED fip
            ELSE /\ fip' = DbDeallocate(r.a)
                 /\ IF r.resv # 0
                    THEN Set(c, [r EXCEPT !.pc = "dealloc_commit", !.nStore = @ + 1])
                    ELSE Set(c, DeallocReturn([r EXCEPT !.nStore = @ + 1]))
    /\ UNCHANGED <<quota, rules, lock, started, dns>>

\* lines 288-289: the commit of the reservation, when one was taken.
DeallocCommit(c, env) ==
    /\ At(c, "dealloc_commit")
    /\ LET r == calls[c]
       IN \E ok \in Outcomes(env.qfaults) :
            IF ok
            THEN /\ quota' = QuotaCommit(r.ctx.project_id, r.resv)
                 /\ Set(c, DeallocReturn([r EXCEPT !.nCommit = @ + 1]))
            ELSE /\ Set(c, Finish(r, "Error"))
                 /\ UNCHANGED quota
    /\ UNCHANGED <<fip, rules, lock, started, dns>>

\* ------------------------------------------------- the authoritative host
\* lines 329-336 and 412-430: the host of the instance on a multi_host
\* network, the host of the network otherwise.
NetworkHost(x) ==
    LET fixed_ip == FixedIpGet(x)
        network == NetworkGet(fixed_ip.network_id)
    IN IF network.multi_host
       THEN InstanceGet(fixed_ip.instance_uuid).host
       ELSE network.host

IsMultiHost(x) == NetworkGet(FixedIpGet(x).network_id).multi_host

\* servicegroup_api.service_is_up, as the caller may be told.
Liveness(env, multi) == IF env.down /\ multi THEN {TRUE, FALSE} ELSE {TRUE}

Release(h, a) == lock' = [lock EXCEPT ![h][a] = None]

Acquire(h, a, c) == lock' = [lock EXCEPT ![h][a] = c]

\* utils.synchronized(address): the caller waits until no thread of this
\* host holds the lock named by the address.
LockFree(h, a) == lock[h][a] = None

\* ------------------------------------------- disassociate_floating_ip
\* A variant that does not look at the binding.
DisChecksNoBindingTest(ctx, floating_ip, affect_auto_assigned) ==
    IF ~affect_auto_assigned /\ floating_ip.auto_assigned
    THEN "CannotDisassociateAutoAssignedFloatingIP"
    ELSE IF ~FloatingIpOwnedByProject(ctx, floating_ip)
    THEN "NotAuthorized"
    ELSE "pass"

\* A variant that checks the owner before the auto_assigned guard.
DisChecksOwnerFirst(ctx, floating_ip, affect_auto_assigned) ==
    IF ~FloatingIpOwnedByProject(ctx, floating_ip)
    THEN "NotAuthorized"
    ELSE IF ~affect_auto_assigned /\ floating_ip.auto_assigned
    THEN "CannotDisassociateAutoAssignedFloatingIP"
    ELSE IF floating_ip.fixed_ip_id = None
    THEN "FloatingIpNotAssociated"
    ELSE "pass"

\* lines 397-407, on the record fetched at line 395: the auto_assigned
\* guard, the ownership check, the check that the address is associated.
DisChecks(ctx, floating_ip, affect_auto_assigned) ==
    IF ~affect_auto_assigned /\ floating_ip.auto_assigned
    THEN "CannotDisassociateAutoAssignedFloatingIP"
    ELSE IF ~FloatingIpOwnedByProject(ctx, floating_ip)
    THEN "NotAuthorized"
    ELSE IF floating_ip.fixed_ip_id = None
    THEN "FloatingIpNotAssociated"
    ELSE "pass"

\* lines 388-409: where the call r stands once the record is fetched and
\* checked; the context is not read again.
DisEnter(r, ctx, affect) ==
    LET chk == DisChecks(ctx, fip[r.a], affect)
    IN IF chk # "pass"
       THEN Finish(r, chk)
       ELSE [r EXCEPT !.pc = "dis_route", !.ctx = NoCtx,
                      !.routed = fip[r.a].fixed_ip_id]

StartDisassociate(ctx, host, a, affect) ==
    DisEnter([IdleCall EXCEPT !.op = "disassociate", !.host = host, !.a = a],
             ctx, affect)

\* The call returns: to its caller, to associate_floating_ip (line 324) or
\* to deallocate_for_instance (line 178).
DisReturn(r) ==
    IF r.nested
    THEN [r EXCEPT !.pc = "assoc_route", !.nested = FALSE, !.routed = None,
                   !.got = None, !.iface = FALSE, !.down = FALSE, !.note = None,
                   !.host = r.self_host, !.self_host = IdleCall.self_host]
    ELSE IF r.op = "deallocate_for_instance"
    THEN DfiAfterDis([r EXCEPT !.routed = None, !.got = None, !.iface = FALSE,
                               !.down = FALSE, !.host = r.self_host])
    ELSE Finish(r, "ok")

\* line 324: associate_floating_ip disassociates the address it found bound;
\* affect_auto_assigned has its default.
DisGet(c, env) ==
    /\ At(c, "dis_get")
    /\ Set(c, DisEnter(calls[c], calls[c].ctx, FALSE))
    /\ UNCHANGED <<fip, quota, rules, lock, started, dns>>

\* lines 411-439: the host is resolved, and the call is run here or sent
\* to that host.  _disassociate_floating_ip then applies
\* CONF.public_interface (line 444).
DisRoute(c, env) ==
    /\ At(c, "dis_route")
    /\ LET r == calls[c]
       IN \E up \in Liveness(env, IsMultiHost(r.routed)) :
            LET host == IF up THEN NetworkHost(r.routed) ELSE r.host
                interface == IF up THEN InterfaceOf(r.a) ELSE None
                iface == env.pubif \/ interface # None
            IN IF host = r.host
               THEN Set(c, [r EXCEPT !.pc = "dis_db", !.iface = iface,
                                     !.down = ~up])
               ELSE \E ok \in Outcomes(env.dfaults) :
                      IF ok
                      THEN Set(c, [r EXCEPT !.pc = "dis_db", !.iface = iface,
                                            !.host = host, !.nRpc = @ + 1])
                      ELSE Set(c, Finish(r, "Error"))
    /\ UNCHANGED <<fip, quota, rules, lock, started, dns>>

\* lines 446-459: under the lock of the address, the store clears the
\* binding and returns the fixed address that was bound, if any.
DisDb(c, env) ==
    /\ At(c, "dis_db")
    /\ LET r == calls[c]
           fixed == fip[r.a].fixed_ip_id
       IN /\ LockFree(r.host, r.a)
          /\ IF fixed = None
             THEN /\ Set(c, DisReturn([r EXCEPT !.note = "raced"]))
                  /\ UNCHANGED <<fip, lock>>
             ELSE /\ fip' = DbDisassociate(r.a)
                  /\ Acquire(r.host, r.a, c)
                  /\ Set(c, [r EXCEPT !.pc = IF r.iface THEN "dis_drv" ELSE "dis_notify",
                                      !.got = fixed, !.nStore = @ + 1])
    /\ UNCHANGED <<quota, rules, started, dns>>

\* lines 460-463: the driver removes the forwarding rule; a failure leaves
\* the function, and the lock, at once.
DisDriver(c, env) ==
    /\ At(c, "dis_drv")
    /\ LET r == calls[c]
       IN \E ok \in Outcomes(env.dfaults) :
            IF ok
            THEN /\ rules' = [rules EXCEPT ![r.host] = @ \ {<<r.a, r.got>>}]
                 /\ Set(c, [r EXCEPT !.pc = "dis_notify", !.nDrv = @ + 1])
                 /\ UNCHANGED lock
            ELSE /\ Set(c, Finish([r EXCEPT !.nDrv = @ + 1], "ProcessExecutionError"))
                 /\ Release(r.host, r.a)
                 /\ UNCHANGED rules
    /\ UNCHANGED <<fip, quota, started, dns>>

\* lines 464-471: the disassociation event, the end of the locked function.
DisNotify(c, env) ==
    /\ At(c, "dis_notify")
    /\ LET r == calls[c]
       IN /\ \E ok \in Outcomes(env.dfaults) :
               IF ok
               THEN Set(c, DisReturn([r EXCEPT !.nEvt = @ + 1]))
               ELSE Set(c, Finish(r, "Error"))
          /\ Release(r.host, r.a)
    /\ UNCHANGED <<fip, quota, rules, started, dns>>

\* ---------------------------------------------- associate_floating_ip
\* A variant that rebinds an address bound to the requested fixed address.
AssocChecksNoSame(ctx, floating_ip, fixed_address, affect_auto_assigned) ==
    IF ~affect_auto_assigned /\ floating_ip.auto_assigned
    THEN "skip"
    ELSE IF ~FloatingIpOwnedByProject(ctx, floating_ip)
    THEN "NotAuthorized"
    ELSE IF floating_ip.fixed_ip_id = None
    THEN "pass"
    ELSE "rebind"

\* A variant that checks the owner before the auto_assigned skip.
AssocChecksOwnerFirst(ctx, floating_ip, fixed_address, affect_auto_assigned) ==
    IF ~FloatingIpOwnedByProject(ctx, floating_ip)
    THEN "NotAuthorized"
    ELSE IF ~affect_auto_assigned /\ floating_ip.auto_assigned
    THEN "skip"
    ELSE IF floating_ip.fixed_ip_id = None
    THEN "pass"
    ELSE IF FixedIpGet(floating_ip.fixed_ip_id).address = fixed_address
    THEN "same"
    ELSE "rebind"

\* lines 306-324, on the record fetched at line 304: the auto_assigned
\* skip, the ownership check, and what an existing binding asks for.
AssocChecks(ctx, floating_ip, fixed_address, affect_auto_assigned) ==
    IF ~affect_auto_assigned /\ floating_ip.auto_assigned
    THEN "skip"
    ELSE IF ~FloatingIpOwnedByProject(ctx, floating_ip)
    THEN "NotAuthorized"
    ELSE IF floating_ip.fixed_ip_id = None
    THEN "pass"
    ELSE IF FixedIpGet(floating_ip.fixed_ip_id).address = fixed_address
    THEN "same"
    ELSE "rebind"

\* lines 292-324: where the call r stands once the record is fetched and
\* checked; the context is read again only by the nested disassociate.
AssocEnter(r, ctx, affect) ==
    LET chk == AssocChecks(ctx, fip[r.a], r.fixed, affect)
    IN IF chk \in {"skip", "same"}
       THEN Finish([r EXCEPT !.note = chk], "ok")
       ELSE IF chk = "NotAuthorized"
       THEN Finish(r, chk)
       ELSE IF chk = "pass"
       THEN [r EXCEPT !.pc = "assoc_route", !.ctx = NoCtx]
       ELSE [r EXCEPT !.pc = "dis_get", !.ctx = ctx, !.nested = TRUE,
                      !.self_host = r.host,
                      !.orig = FixedIpGet(fip[r.a].fixed_ip_id).instance_uuid]

StartAssociate(ctx, host, a, fixed, affect) ==
    AssocEnter([IdleCall EXCEPT !.op = "associate", !.host = host, !.a = a,
                                !.fixed = fixed],
               ctx, affect)

\* lines 133-136: allocate_for_instance associates the address it flagged.
AssocGet(c, env) ==
    /\ At(c, "assoc_get")
    /\ Set(c, AssocEnter(calls[c], calls[c].ctx, TRUE))
    /\ UNCHANGED <<fip, quota, rules, lock, started, dns>>

\* A variant that always binds on the host that received the call.
AssocRouteLocal(c, env) ==
    /\ At(c, "assoc_route")
    /\ Set(c, [calls[c] EXCEPT !.pc = "assoc_db"])
    /\ UNCHANGED <<fip, quota, rules, lock, started, dns>>

\* lines 326-348: the host is resolved, and the binding is run here or sent
\* to that host.
AssocRoute(c, env) ==
    /\ At(c, "assoc_route")
    /\ LET r == calls[c]
           host == NetworkHost(r.fixed)
       IN IF host = r.host
          THEN Set(c, [r EXCEPT !.pc = "assoc_db"])
          ELSE \E ok \in Outcomes(env.dfaults) :
                 IF ok
                 THEN Set(c, [r EXCEPT !.pc = "assoc_db", !.host = host,
                                       !.nRpc = @ + 1])
                 ELSE Set(c, Finish(r, "Error"))
    /\ UNCHANGED <<fip, quota, rules, lock, started, dns>>

\* A variant whose binding does not wait for the lock of the address.
AssocDbUnlocked(c, env) ==
    /\ At(c, "assoc_db")
    /\ LET r == calls[c]
       IN IF DbAssociateIsNoop(r.a, r.fixed)
          THEN /\ Set(c, Finish([r EXCEPT !.note = "raced"], "ok"))
               /\ UNCHANGED <<fip, lock>>
          ELSE /\ fip' = DbAssociate(r.a, r.fixed, r.host)
               /\ Acquire(r.host, r.a, c)
               /\ Set(c, [r EXCEPT !.pc = "assoc_drv", !.nStore = @ + 1])
    /\ UNCHANGED <<quota, rules, started, dns>>

\* A variant that goes on to the driver when the address is bound already.
AssocDbGoesOn(c, env) ==
    /\ At(c, "assoc_db")
    /\ LET r == calls[c]
       IN /\ LockFree(r.host, r.a)
          /\ fip' = DbAssociate(r.a, r.fixed, r.host)
          /\ Acquire(r.host, r.a, c)
          /\ Set(c, [r EXCEPT !.pc = "assoc_drv", !.nStore = @ + 1])
    /\ UNCHANGED <<quota, rules, started, dns>>

\* lines 357-366: under the lock of the address, the store binds the
\* address and tags it with this host, unless it is bound already.
AssocDb(c, env) ==
    /\ At(c, "assoc_db")
    /\ LET r == calls[c]
       IN /\ LockFree(r.host, r.a)
          /\ IF DbAssociateIsNoop(r.a, r.fixed)
             THEN /\ Set(c, Finish([r EXCEPT !.note = "raced"], "ok"))
                  /\ UNCHANGED <<fip, lock>>
             ELSE /\ fip' = DbAssociate(r.a, r.fixed, r.host)
                  /\ Acquire(r.host, r.a, c)
                  /\ Set(c, [r EXCEPT !.pc = "assoc_drv", !.nStore = @ + 1])
    /\ UNCHANGED <<quota, rules, started, dns>>

\* What a failing driver command can say: the text of the process
\* execution error, word by word.
DriverMessages ==
    { <<"Cannot", "find", "device", "eth1">>, <<"Device", "or", "resource", "busy">> }

\* line 373: "Cannot find device" in str(e)
Contains(text, words) ==
    \E i \in 1..(Len(text) - Len(words) + 1) :
        SubSeq(text, i, i + Len(words) - 1) = words

\* lines 373-376: the error the handler leaves with.
RaisedByHandler(text) ==
    IF Contains(text, <<"Cannot", "find", "device">>)
    THEN "NoFloatingIpInterface"
    ELSE "ProcessExecutionError"

\* lines 367-371: the driver adds the forwarding rule; on a process
\* execution error the handler is entered.
AssocDriver(c, env) ==
    /\ At(c, "assoc_drv")
    /\ LET r == calls[c]
       IN \E ok \in Outcomes(env.dfaults) :
            IF ok
            THEN /\ rules' = [rules EXCEPT ![r.host] = @ \cup {<<r.a, r.fixed>>}]
                 /\ Set(c, [r EXCEPT !.pc = "assoc_notify", !.nDrv = @ + 1])
            ELSE /\ \E text \in DriverMessages :
                      Set(c, [r EXCEPT !.pc = "assoc_undo", !.msg = text,
                                       !.nDrv = @ + 1])
                 /\ UNCHANGED rules
    /\ UNCHANGED <<fip, quota, lock, started, dns>>

\* A variant whose handler raises without clearing the binding.
AssocUndoKeepsBinding(c, env) ==
    /\ At(c, "assoc_undo")
    /\ LET r == calls[c]
       IN /\ Set(c, Finish(r, RaisedByHandler(r.msg)))
          /\ Release(r.host, r.a)
    /\ UNCHANGED <<fip, quota, rules, started, dns>>

\* lines 372-376: the handler clears the binding in the store and raises.
AssocUndo(c, env) ==
    /\ At(c, "assoc_undo")
    /\ LET r == calls[c]
       IN /\ fip' = DbDisassociate(r.a)
          /\ Set(c, Finish([r EXCEPT !.nStore = @ + 1], RaisedByHandler(r.msg)))
          /\ Release(r.host, r.a)
    /\ UNCHANGED <<quota, rules, started, dns>>

\* lines 378-385: the association event, the end of the locked function.
AssocNotify(c, env) ==
    /\ At(c, "assoc_notify")
    /\ LET r == calls[c]
       IN /\ \E ok \in Outcomes(env.dfaults) :
               IF ok
               THEN Set(c, Finish([r EXCEPT !.nEvt = @ + 1], "ok"))
               ELSE Set(c, Finish(r, "Error"))
          /\ Release(r.host, r.a)
    /\ UNCHANGED <<fip, quota, rules, started, dns>>

\* ------------------------------------------------ allocate_for_instance
\* line 126: the address allocated for the instance is flagged
\* auto_assigned, then associated with affect_auto_assigned (lines 133-136).
AfiSetAuto(c, env) ==
    /\ At(c, "afi_set_auto")
    /\ LET r == calls[c]
       IN /\ fip' = DbSetAutoAssigned(r.a)
          /\ Set(c, [r EXCEPT !.pc = "assoc_get", !.nStore = @ + 1])
    /\ UNCHANGED <<quota, rules, lock, started, dns>>

\* ------------------------------------------------ the next-state relation
Init ==
    /\ fip = [a \in Addrs |-> Unowned]
    /\ quota = [p \in Projects |-> [in_use |-> 0, reserved |-> 0]]
    /\ rules = [h \in Hosts |-> {}]
    /\ lock = [h \in Hosts |-> [a \in Addrs |-> None]]
    /\ calls = [c \in Slots |-> IdleCall]
    /\ started = 0
    /\ dns = NoDns

\* A new request takes the first free thread.
Free(c) == calls[c].pc \in {"idle", "done"}

FirstFree == IF Free("t1") THEN "t1" ELSE "t2"

CanStart(c) ==
    /\ Free(c)
    /\ started < MaxOps
    /\ c = FirstFree

\* The API passes the project of the request context.
CallAllocate(c, ctxs, autos) ==
    /\ CanStart(c)
    /\ \E ctx \in ctxs, auto \in autos :
         Set(c, StartAllocate("allocate", ctx, "h1", ctx.project_id, auto, None))
    /\ started' = started + 1
    /\ UNCHANGED <<fip, quota, rules, lock, dns>>

CallAllocateForInstance(c, ctxs, hosts) ==
    /\ CanStart(c)
    /\ \E ctx \in ctxs, host \in hosts, x \in FixedIPs :
         Set(c, StartAllocate("allocate_for_instance", ctx, host,
                              ctx.project_id, TRUE, x))
    /\ started' = started + 1
    /\ UNCHANGED <<fip, quota, rules, lock, dns>>

CallDeallocate(c) ==
    /\ CanStart(c)
    /\ \E ctx \in Contexts, a \in Addrs, affect \in BOOLEAN :
         Set(c, StartDeallocate(ctx, a, affect))
    /\ started' = started + 1
    /\ UNCHANGED <<fip, quota, rules, lock, dns>>

CallAssociate(c, ctxs) ==
    /\ CanStart(c)
    /\ \E ctx \in ctxs, host \in Hosts, a \in Addrs, x \in FixedIPs,
          affect \in BOOLEAN :
         Set(c, StartAssociate(ctx, host, a, x, affect))
    /\ started' = started + 1
    /\ UNCHANGED <<fip, quota, rules, lock, dns>>

CallDisassociate(c, ctxs) ==
    /\ CanStart(c)
    /\ \E ctx \in ctxs, host \in Hosts, a \in Addrs, affect \in BOOLEAN :
         Set(c, StartDisassociate(ctx, host, a, affect))
    /\ started' = started + 1
    /\ UNCHANGED <<fip, quota, rules, lock, dns>>


\* ------------------------------- migrate_instance_start, _finish
\* db.floating_ip_update(context, address, {'host': host})
DbUpdateHost(a, host) == [fip EXCEPT ![a].host = host]

\* The address lists a migration is called with: the addresses of one
\* instance, each at most once, in any order, or none.
AddressLists ==
    { l \in UNION { [1..n -> Addrs] : n \in 0..NumAddrs } :
        \A i, j \in 1..Len(l) : l[i] = l[j] => i = j }

\* source, dest and host are optional arguments.
OptHosts == Hosts \cup {None}

\* A variant that looks at the binding only.
IsStaleUnboundOnly(ctx, floating_ip) == floating_ip.fixed_ip_id = None

\* lines 516-521: _is_stale_floating_ip_address
IsStaleFloatingIpAddress(ctx, floating_ip) ==
    IF ~FloatingIpOwnedByProject(ctx, floating_ip)
    THEN TRUE
    ELSE IF floating_ip.fixed_ip_id # None THEN FALSE ELSE TRUE

\* A variant that tests source == dest alone.
MigrationSkippedIfEqual(addrs, source, dest) ==
    addrs = << >> \/ source = dest

\* lines 529 and 571: not floating_addresses or (source and source == dest)
MigrationSkipped(addrs, source, dest) ==
    addrs = << >> \/ (source # None /\ source = dest)

\* lines 569-570: if host and not dest: dest = host
FinishDest(host_arg, dest) ==
    IF host_arg # None /\ dest = None THEN host_arg ELSE dest

\* A phase that has returned leaves, with its result, the context and
\* the arguments it was called with and the addresses it skipped.
MigReturn(r, res) ==
    [Finish(r, res) EXCEPT !.addrs = r.addrs, !.source = r.source,
                           !.dest = r.dest, !.host_arg = r.host_arg,
                           !.skipped = r.skipped, !.note = r.note,
                           !.ctx = r.ctx]

\* lines 534 and 577: the for loop moves to the next address, or ends.
MigAdvance(r) ==
    IF r.idx < Len(r.addrs)
    THEN [r EXCEPT !.pc = "mig_get", !.idx = @ + 1, !.a = r.addrs[r.idx + 1],
                   !.got = None]
    ELSE MigReturn(r, "ok")

\* lines 523-533: migrate_instance_start as received by the manager host.
StartMigrateStart(ctx, host, addrs, source, dest) ==
    LET r == [IdleCall EXCEPT !.op = "migrate_start", !.ctx = ctx,
                              !.host = host, !.addrs = addrs,
                              !.source = source, !.dest = dest]
    IN IF MigrationSkipped(addrs, source, dest)
       THEN MigReturn([r EXCEPT !.note = "noop"], "ok")
       ELSE MigAdvance(r)

\* lines 563-575: migrate_instance_finish; dest is replaced by host first.
StartMigrateFinish(ctx, host, addrs, host_arg, source, dest) ==
    LET r == [IdleCall EXCEPT !.op = "migrate_finish", !.ctx = ctx,
                              !.host = host, !.addrs = addrs,
                              !.host_arg = host_arg,
                              !.source = source, !.dest = dest]
    IN IF MigrationSkipped(addrs, source, FinishDest(host_arg, dest))
       THEN MigReturn([r EXCEPT !.note = "noop"], "ok")
       ELSE MigAdvance(r)

\* lines 535-542 and 578-585: the record is fetched again; a stale
\* address is logged and skipped.
MigGet(c, env) ==
    /\ At(c, "mig_get")
    /\ LET r == calls[c]
           floating_ip == fip[r.a]
       IN IF IsStaleFloatingIpAddress(r.ctx, floating_ip)
          THEN Set(c, MigAdvance([r EXCEPT !.skipped = @ \cup {r.a}]))
          ELSE Set(c, [r EXCEPT !.got = floating_ip.fixed_ip_id,
                                !.pc = IF r.op = "migrate_start"
                                       THEN "mig_remove" ELSE "mig_set_host"])
    /\ UNCHANGED <<fip, quota, rules, lock, started, dns>>

\* lines 544-550: the rule of the address is removed on this host; nDrv
\* counts the remove_floating_ip command.
MigRemove(c, env) ==
    /\ At(c, "mig_remove")
    /\ LET r == calls[c]
       IN \E ok \in Outcomes(env.dfaults) :
            IF ok
            THEN /\ rules' = [rules EXCEPT ![r.host] = @ \ {<<r.a, r.got>>}]
                 /\ Set(c, [r EXCEPT !.pc = "mig_conntrack", !.nDrv = @ + 1])
            ELSE /\ Set(c, MigReturn([r EXCEPT !.nDrv = @ + 1],
                                     "ProcessExecutionError"))
                 /\ UNCHANGED rules
    /\ UNCHANGED <<fip, quota, lock, started, dns>>

\* lines 552-554: the connections tracked for the fixed address are
\* dropped on this host; note records that this was the command that failed.
MigConntrack(c, env) ==
    /\ At(c, "mig_conntrack")
    /\ LET r == calls[c]
       IN \E ok \in Outcomes(env.dfaults) :
            IF ok
            THEN Set(c, [r EXCEPT !.pc = "mig_clear_host"])
            ELSE Set(c, MigReturn([r EXCEPT !.note = "clean_conntrack"],
                                  "ProcessExecutionError"))
    /\ UNCHANGED <<fip, quota, rules, lock, started, dns>>

\* A variant that clears the binding with the recorded host.
MigClearHostUnbinds(c, env) ==
    /\ At(c, "mig_clear_host")
    /\ LET r == calls[c]
       IN /\ fip' = DbDisassociate(r.a)
          /\ Set(c, MigAdvance([r EXCEPT !.nStore = @ + 1]))
    /\ UNCHANGED <<quota, rules, lock, started, dns>>

\* lines 559-561: the recorded host is cleared.
MigClearHost(c, env) ==
    /\ At(c, "mig_clear_host")
    /\ LET r == calls[c]
       IN /\ fip' = DbUpdateHost(r.a, None)
          /\ Set(c, MigAdvance([r EXCEPT !.nStore = @ + 1]))
    /\ UNCHANGED <<quota, rules, lock, started, dns>>

\* A variant that writes the dest argument as it was passed.
MigSetHostRawDest(c, env) ==
    /\ At(c, "mig_set_host")
    /\ LET r == calls[c]
       IN /\ fip' = DbUpdateHost(r.a, r.dest)
          /\ Set(c, [r EXCEPT !.pc = "mig_add", !.nStore = @ + 1])
    /\ UNCHANGED <<quota, rules, lock, started, dns>>

\* lines 587-589: the recorded host becomes dest.
MigSetHost(c, env) ==
    /\ At(c, "mig_set_host")
    /\ LET r == calls[c]
       IN /\ fip' = DbUpdateHost(r.a, FinishDest(r.host_arg, r.dest))
          /\ Set(c, [r EXCEPT !.pc = "mig_add", !.nStore = @ + 1])
    /\ UNCHANGED <<quota, rules, lock, started, dns>>

\* A variant that goes on to the next address when the driver fails.
MigAddGoesOn(c, env) ==
    /\ At(c, "mig_add")
    /\ LET r == calls[c]
       IN \E ok \in Outcomes(env.dfaults) :
            IF ok
            THEN /\ rules' = [rules EXCEPT ![r.host] = @ \cup {<<r.a, r.got>>}]
                 /\ Set(c, MigAdvance([r EXCEPT !.nDrv = @ + 1]))
            ELSE /\ Set(c, MigAdvance([r EXCEPT !.nDrv = @ + 1]))
                 /\ UNCHANGED rules
    /\ UNCHANGED <<fip, quota, lock, started, dns>>

\* lines 591-598: the rule of the address is added on this host.
MigAdd(c, env) ==
    /\ At(c, "mig_add")
    /\ LET r == calls[c]
       IN \E ok \in Outcomes(env.dfaults) :
            IF ok
            THEN /\ rules' = [rules EXCEPT ![r.host] = @ \cup {<<r.a, r.got>>}]
                 /\ Set(c, MigAdvance([r EXCEPT !.nDrv = @ + 1]))
            ELSE /\ Set(c, MigReturn([r EXCEPT !.nDrv = @ + 1],
                                     "ProcessExecutionError"))
                 /\ UNCHANGED rules
    /\ UNCHANGED <<fip, quota, lock, started, dns>>

\* The migration controller calls the first phase of the migration of an
\* instance on a request thread that has not been used.
CallMigrateStart(c, ctxs) ==
    /\ started < MaxOps
    /\ \A d \in Slots : calls[d].pc = "idle"
    /\ \E ctx \in ctxs, host \in Hosts, addrs \in AddressLists,
          source \in OptHosts, dest \in OptHosts :
         Set(c, StartMigrateStart(ctx, host, addrs, source, dest))
    /\ started' = started + 1
    /\ UNCHANGED <<fip, quota, rules, lock, dns>>

\* The second phase is called once the first, run on thread first, has
\* returned, with the context, the address list, source and dest of the
\* first; the controller may name the destination in host.
CallMigrateFinish(c, first) ==
    /\ started < MaxOps
    /\ calls[c].pc = "idle"
    /\ calls[first].pc = "done"
    /\ calls[first].op = "migrate_start"
    /\ LET r == calls[first]
       IN \E host \in Hosts, host_arg \in OptHosts :
            Set(c, StartMigrateFinish(r.ctx, host, r.addrs, host_arg,
                                      r.source, r.dest))
    /\ started' = started + 1
    /\ UNCHANGED <<fip, quota, rules, lock, dns>>

\* The store records the boot of instances leaves behind: an address is
\* unowned, or allocated for an instance of a project (auto_assigned, so
\* outside the quota) and then either bound on the host that serves the
\* fixed address or left unbound by an association that failed.
BootedRecords ==
    {Unowned}
    \cup { [project_id |-> p, fixed_ip_id |-> None, host |-> None,
            auto_assigned |-> TRUE] : p \in Projects }
    \cup { [project_id |-> p, fixed_ip_id |-> x, host |-> NetworkHost(x),
            auto_assigned |-> TRUE] : p \in Projects, x \in FixedIPs }

\* The state allocate_for_instance leaves: every bound address has its
\* forwarding rule on the host recorded for it.
InitBooted ==
    /\ fip \in [Addrs -> BootedRecords]
    /\ quota = [p \in Projects |-> [in_use |-> 0, reserved |-> 0]]
    /\ rules = [h \in Hosts |->
                  { <<a, fip[a].fixed_ip_id>> : a \in { b \in Addrs : fip[b].host = h } }]
    /\ lock = [h \in Hosts |-> [a \in Addrs |-> None]]
    /\ calls = [c \in Slots |-> IdleCall]
    /\ started = 0
    /\ dns = NoDns

\* The same, for the instances of project A alone.
InitBootedOwned ==
    /\ InitBooted
    /\ \A a \in Addrs : fip[a].project_id \in {None, "A"}

\* ---------------------------------------------- deallocate_for_instance
\* db.floating_ip_get_by_fixed_ip_id: the addresses bound to a fixed address.
DbGetByFixedIpId(x) == { a \in Addrs : fip[a].fixed_ip_id = x }

\* The rows of a query, in the order of their addresses.
InOrder(S) ==
    CHOOSE l \in [1..Cardinality(S) -> S] :
        \A i, j \in 1..Cardinality(S) : i < j => l[i] < l[j]

\* lines 143-174: the fixed address x of the instance is fetched, then the
\* floating addresses bound to it; the loop starts on the first of them.
StartDeallocateForInstance(ctx, host, x) ==
    LET listed == DbGetByFixedIpId(x)
    IN DfiAdvance([IdleCall EXCEPT
                      !.op = "deallocate_for_instance", !.ctx = ctx,
                      !.host = host, !.self_host = host, !.fixed = x,
                      !.addrs = InOrder(listed),
                      !.autos = { a \in listed : fip[a].auto_assigned }])

\* A variant in which FloatingIpNotAssociated ends the call as any other
\* error does.
DfiDisStops(c, env) ==
    /\ At(c, "dfi_dis")
    /\ LET r == calls[c]
           chk == DisChecks(r.ctx, fip[r.a], TRUE)
       IN IF chk # "pass"
          THEN Set(c, Finish(r, chk))
          ELSE Set(c, [r EXCEPT !.pc = "dis_route",
                                !.routed = fip[r.a].fixed_ip_id])
    /\ UNCHANGED <<fip, quota, rules, lock, started, dns>>

\* lines 176-182: disassociate_floating_ip(context, address,
\* affect_auto_assigned=True) fetches and checks the record;
\* FloatingIpNotAssociated is logged and ignored, any other error ends the
\* call.
DfiDis(c, env) ==
    /\ At(c, "dfi_dis")
    /\ LET r == calls[c]
           chk == DisChecks(r.ctx, fip[r.a], TRUE)
       IN IF chk = "FloatingIpNotAssociated"
          THEN Set(c, DfiAfterDis([r EXCEPT !.note = "ignored"]))
          ELSE IF chk # "pass"
          THEN Set(c, Finish(r, chk))
          ELSE Set(c, [r EXCEPT !.pc = "dis_route",
                                !.routed = fip[r.a].fixed_ip_id])
    /\ UNCHANGED <<fip, quota, rules, lock, started, dns>>

\* lines 184-186: deallocate_floating_ip(context, address,
\* affect_auto_assigned=True) fetches and checks the record.
DfiDealloc(c, env) ==
    /\ At(c, "dfi_dealloc")
    /\ LET r == calls[c]
           chk == DeallocChecks(r.ctx, fip[r.a], TRUE)
       IN IF chk # "pass"
          THEN Set(c, Finish(r, chk))
          ELSE Set(c, [r EXCEPT !.pc = "dealloc_dns",
                                !.use_quota = ~fip[r.a].auto_assigned])
    /\ UNCHANGED <<fip, quota, rules, lock, started, dns>>

\* The compute service asks the manager on a host to release the network
\* resources of the instance that holds the fixed address x, on a request
\* thread that has not been used.
CallDeallocateForInstance(c, ctxs) ==
    /\ CanStart(c)
    /\ calls[c].pc = "idle"
    /\ \E ctx \in ctxs, host \in Hosts, x \in FixedIPs :
         Set(c, StartDeallocateForInstance(ctx, host, x))
    /\ started' = started + 1
    /\ UNCHANGED <<fip, quota, rules, lock, dns>>

\* The records of project A once its instances run: those of the boot, and
\* addresses its users allocated themselves, bound or not.
InUseRecords ==
    { rec \in BootedRecords : rec.project_id \in {None, "A"} }
    \cup { [project_id |-> "A", fixed_ip_id |-> None, host |-> None,
            auto_assigned |-> FALSE] }
    \cup { [project_id |-> "A", fixed_ip_id |-> x, host |-> NetworkHost(x),
            auto_assigned |-> FALSE] : x \in FixedIPs }

\* The state allocate_for_instance, allocate_floating_ip and
\* associate_floating_ip leave: the usage counts the addresses that are not
\* auto_assigned, within the limit, and every bound address has its
\* forwarding rule on the host recorded for it.
InitInUse ==
    /\ fip \in [Addrs -> InUseRecords]
    /\ Cardinality({ a \in Addrs : fip[a].project_id = "A"
                                    /\ ~fip[a].auto_assigned }) <= QuotaLimit
    /\ quota = [p \in Projects |->
                  [in_use |-> Cardinality({ a \in Addrs :
                                 fip[a].project_id = p /\ ~fip[a].auto_assigned }),
                   reserved |-> 0]]
    /\ rules = [h \in Hosts |->
                  { <<a, fip[a].fixed_ip_id>> : a \in { b \in Addrs : fip[b].host = h } }]
    /\ lock = [h \in Hosts |-> [a \in Addrs |-> None]]
    /\ calls = [c \in Slots |-> IdleCall]
    /\ started = 0
    /\ dns = NoDns

\* ------------------------------------------------ init_host_floating_ips
\* db.floating_ip_get_all_by_host: the addresses recorded for the host.
DbGetAllByHost(h) == { a \in Addrs : fip[a].host = h }

\* A variant whose scan takes the bound addresses of every host.
InitHostAnyHost(env) ==
    /\ \E h \in Hosts :
         LET bound == { a \in Addrs : fip[a].fixed_ip_id # None }
         IN \E stop \in (IF env.dfaults THEN bound ELSE {}) \cup {NoAddr} :
              rules' = [rules EXCEPT ![h] = @ \cup
                          { <<a, fip[a].fixed_ip_id>> :
                              a \in { b \in bound : stop = NoAddr \/ b < stop } }]
    /\ UNCHANGED <<fip, quota, lock, calls, started, dns>>

\* lines 70-99: a manager that starts on host h adds the rule of every
\* bound address recorded for h, in the order of the list, until a driver
\* command fails (stop is the address it fails on, if any).  A restart is
\* no request to the manager and is not counted in started.
InitHostFloatingIps(env) ==
    /\ \E h \in Hosts :
         LET bound == { a \in DbGetAllByHost(h) : fip[a].fixed_ip_id # None }
         IN \E stop \in (IF env.dfaults THEN bound ELSE {}) \cup {NoAddr} :
              rules' = [rules EXCEPT ![h] = @ \cup
                          { <<a, fip[a].fixed_ip_id>> :
                              a \in { b \in bound : stop = NoAddr \/ b < stop } }]
    /\ UNCHANGED <<fip, quota, lock, calls, started, dns>>

MigSteps(c, env) ==
    \/ MigGet(c, env)
    \/ MigRemove(c, env)
    \/ MigConntrack(c, env)
    \/ MigClearHost(c, env)
    \/ MigSetHost(c, env)
    \/ MigAdd(c, env)

\* ------------------------------------------------------ the DNS calls
\* The DNS calls are made while no other call is running.
\* lines 674-681: create_public_dns_domain registers the domain in the
\* store, then creates it in the floating DNS driver; FloatingIpDNSExists
\* is logged, any other error of the driver is raised.
CreatePublicDnsDomain(env) ==
    /\ \A c \in Slots : Free(c)
    /\ \E d \in Domains, project \in Projects, ok \in Outcomes(env.qfaults) :
         dns' = [dns EXCEPT !.registered = @ \cup {d},
                            !.ref[d] = DbRegisterForProject(project),
                            !.floating = IF ok THEN @ \cup {d} ELSE @,
                            !.last = NoReturn]
    /\ UNCHANGED <<fip, quota, rules, lock, calls, started>>

\* lines 665-672: create_private_dns_domain does the same with the
\* instance DNS driver.
CreatePrivateDnsDomain(env) ==
    /\ \A c \in Slots : Free(c)
    /\ \E d \in Domains, av_zone \in Zones, ok \in Outcomes(env.qfaults) :
         dns' = [dns EXCEPT !.registered = @ \cup {d},
                            !.ref[d] = DbRegisterForZone(av_zone),
                            !.instance = IF ok THEN @ \cup {d} ELSE @,
                            !.last = NoReturn]
    /\ UNCHANGED <<fip, quota, rules, lock, calls, started>>

\* lines 683-685: delete_dns_domain unregisters the domain, then deletes
\* it, with its entries, in the floating DNS driver.
DeleteDnsDomain(env) ==
    /\ \A c \in Slots : Free(c)
    /\ \E d \in Domains, ok \in Outcomes(env.qfaults) :
         dns' = [dns EXCEPT !.registered = @ \ {d},
                            !.ref[d] = NoRef,
                            !.floating = IF ok THEN @ \ {d} ELSE @,
                            !.entries = IF ok
                                        THEN { e \in @ : e.domain # d }
                                        ELSE @,
                            !.last = Returned("delete_dns_domain", d, ok)]
    /\ UNCHANGED <<fip, quota, rules, lock, calls, started>>

\* lines 637-639: add_dns_entry creates the entry in the floating DNS
\* driver, which refuses a name the domain already has; whether it takes
\* an entry for a domain it does not list depends on the driver.
AddDnsEntry(env) ==
    /\ \A c \in Slots : Free(c)
    /\ \E a \in Addrs, name \in Names, d \in Domains :
         \E taken \in (IF d \in dns.floating THEN {TRUE} ELSE {TRUE, FALSE}) :
            LET ok == taken /\ ~(\E e \in dns.entries :
                                    e.domain = d /\ e.name = name)
            IN dns' = [dns EXCEPT !.entries =
                          IF ok
                          THEN @ \cup {[domain |-> d, name |-> name, address |-> a]}
                          ELSE @,
                                  !.last = NoReturn]
    /\ UNCHANGED <<fip, quota, rules, lock, calls, started>>

\* A variant that lists every domain of the store.
GetDnsDomainsUnfiltered(env) ==
    /\ \A c \in Slots : Free(c)
    /\ dns' = [dns EXCEPT !.last =
                  [op |-> "get_dns_domains", domain |-> None, result |-> "ok",
                   listed |-> { PrepareDomainEntry(d) : d \in dns.registered }]]
    /\ UNCHANGED <<fip, quota, rules, lock, calls, started>>

\* lines 615-635: get_dns_domains returns the entry prepared for each
\* domain of the store that one of the drivers lists.
GetDnsDomainsCall(env) ==
    /\ \A c \in Slots : Free(c)
    /\ dns' = [dns EXCEPT !.last =
                  [op |-> "get_dns_domains", domain |-> None, result |-> "ok",
                   listed |-> { PrepareDomainEntry(d) : d \in GetDnsDomains }]]
    /\ UNCHANGED <<fip, quota, rules, lock, calls, started>>

DnsSteps(env) ==
    \/ CreatePublicDnsDomain(env)
    \/ CreatePrivateDnsDomain(env)
    \/ DeleteDnsDomain(env)
    \/ AddDnsEntry(env)
\* What the collaborators may do: qfaults, the store, the quota engine and
\* the notifier may raise in allocate and deallocate; dfaults, the driver,
\* the notifier and the RPC may raise in associate and disassociate; down,
\* a network service may be reported down; pubif, CONF.public_interface is set.
Faulty == [qfaults |-> TRUE, dfaults |-> TRUE, down |-> TRUE, pubif |-> FALSE]

Routed == [qfaults |-> FALSE, dfaults |-> TRUE, down |-> TRUE, pubif |-> FALSE]

Users == { ctx \in Contexts : ~ctx.is_admin }

Owners == { ctx \in Users : ctx.project_id = "A" }

AllocSteps(c, env) ==
    \/ AllocReserve(c, env)
    \/ AllocAssign(c, env)
    \/ AllocNotify(c, env)
    \/ AllocCommit(c, env)
    \/ AllocRollback(c, env)

DeallocSteps(c, env) ==
    \/ DeallocDns(c, env)
    \/ DeallocNotify(c, env)
    \/ DeallocReserve(c, env)
    \/ DeallocRelease(c, env)
    \/ DeallocCommit(c, env)

AssocSteps(c, env) ==
    \/ AssocGet(c, env)
    \/ AssocRoute(c, env)
    \/ AssocDb(c, env)
    \/ AssocDriver(c, env)
    \/ AssocUndo(c, env)
    \/ AssocNotify(c, env)
    \/ AfiSetAuto(c, env)

DisSteps(c, env) ==
    \/ DisGet(c, env)
    \/ DisRoute(c, env)
    \/ DisDb(c, env)
    \/ DisDriver(c, env)
    \/ DisNotify(c, env)

\* Concurrent requests: the four operations and the allocation made for a
\* booting instance.  Project A owns the addresses; its users, those of
\* project B and an administrator call in.  The driver, the notifier and
\* the RPC may fail, and a network service may be reported down.
Next ==
    \E c \in Slots :
        \/ CallAllocate(c, Owners, {FALSE})
        \/ CallAllocateForInstance(c, Owners, {"h1"})
        \/ CallDeallocate(c)
        \/ CallAssociate(c, Users)
        \/ CallDisassociate(c, Contexts)
        \/ AllocSteps(c, Routed)
        \/ DeallocSteps(c, Routed)
        \/ AssocSteps(c, Routed)
        \/ DisSteps(c, Routed)

Spec == Init /\ [][Next]_vars

\* Concurrent allocation and release against the quota engine, every
\* collaborator allowed to fail.
NextQuota ==
    \E c \in Slots :
        \/ CallAllocate(c, Contexts, BOOLEAN)
        \/ CallDeallocate(c)
        \/ AllocSteps(c, Faulty)
        \/ DeallocSteps(c, Faulty)

SpecQuota == Init /\ [][NextQuota]_vars

\* Concurrent allocate calls with auto_assigned false, and nothing else.
NextAllocate ==
    \E c \in Slots :
        \/ CallAllocate(c, Contexts, {FALSE})
        \/ AllocSteps(c, Faulty)

SpecAllocate == Init /\ [][NextAllocate]_vars

\* Concurrent binding and unbinding by the owning project of addresses
\* allocated for its instances; the quota engine takes no part.
NextBind ==
    \E c \in Slots :
        \/ CallAllocateForInstance(c, Owners, {"h1"})
        \/ CallAssociate(c, Owners)
        \/ CallDisassociate(c, Owners)
        \/ AllocReserve(c, Routed)
        \/ AllocAssign(c, Routed)
        \/ AllocNotify(c, Routed)
        \/ AssocSteps(c, Routed)
        \/ DisSteps(c, Routed)

SpecBind == Init /\ [][NextBind]_vars

\* One request at a time: every operation, every caller, every
\* collaborator allowed to fail.
NextSeq ==
    \E c \in {"t1"} :
        \/ CallAllocate(c, Contexts, BOOLEAN)
        \/ CallAllocateForInstance(c, Contexts, Hosts)
        \/ CallDeallocate(c)
        \/ CallAssociate(c, Contexts)
        \/ CallDisassociate(c, Contexts)
        \/ AllocSteps(c, Faulty)
        \/ DeallocSteps(c, Faulty)
        \/ AssocSteps(c, Faulty)
        \/ DisSteps(c, Faulty)

SpecSeq == Init /\ [][NextSeq]_vars

\* One request at a time, from the users of both projects and, for the
\* three operations that check the caller, from an administrator too; the
\* driver, the notifier and the RPC may fail.
NextChecks ==
    \E c \in {"t1"} :
        \/ CallAllocate(c, Users, {FALSE})
        \/ CallAllocateForInstance(c, Users, {"h1"})
        \/ CallDeallocate(c)
        \/ CallAssociate(c, Contexts)
        \/ CallDisassociate(c, Contexts)
        \/ AllocSteps(c, Routed)
        \/ DeallocSteps(c, Routed)
        \/ AssocSteps(c, Routed)
        \/ DisSteps(c, Routed)

SpecChecks == Init /\ [][NextChecks]_vars

\* A deployment that sets CONF.public_interface.
Override == [qfaults |-> FALSE, dfaults |-> TRUE, down |-> TRUE, pubif |-> TRUE]

\* One request at a time in a deployment that sets CONF.public_interface.
NextOverride ==
    \E c \in {"t1"} :
        \/ CallAllocate(c, Users, {FALSE})
        \/ CallAllocateForInstance(c, Users, {"h1"})
        \/ CallDeallocate(c)
        \/ CallAssociate(c, Contexts)
        \/ CallDisassociate(c, Contexts)
        \/ AllocSteps(c, Override)
        \/ DeallocSteps(c, Override)
        \/ AssocSteps(c, Override)
        \/ DisSteps(c, Override)

SpecOverride == Init /\ [][NextOverride]_vars

\* The migration of booted instances: the controller runs the first phase
\* on one request thread, then the second on the other; the caller is a
\* user of project A, and the driver may fail.
NextMigrate ==
    \/ CallMigrateStart("t1", Owners)
    \/ CallMigrateFinish("t2", "t1")
    \/ \E c \in Slots : MigSteps(c, Routed)

SpecMigrate == InitBooted /\ [][NextMigrate]_vars

\* One request at a time: allocation and release by the users of project
\* A, and the DNS calls; every collaborator may fail.
NextDns ==
    \/ DnsSteps(Faulty)
    \/ \E c \in {"t1"} :
        \/ CallAllocate(c, Owners, {FALSE})
        \/ CallDeallocate(c)
        \/ AllocSteps(c, Faulty)
        \/ DeallocSteps(c, Faulty)

SpecDns == Init /\ [][NextDns]_vars

\* A migration beside the unbinding calls of the owning project: the two
\* phases of the migration of booted instances, and disassociate calls
\* received while a phase runs.
NextMigrateBind ==
    \/ CallMigrateStart("t1", Owners)
    \/ CallMigrateFinish("t2", "t1")
    \/ \E c \in Slots :
        \/ CallDisassociate(c, Owners)
        \/ MigSteps(c, Routed)
        \/ DisRoute(c, Routed)
        \/ DisDb(c, Routed)
        \/ DisDriver(c, Routed)
        \/ DisNotify(c, Routed)

SpecMigrateBind == InitBooted /\ [][NextMigrateBind]_vars

\* One request at a time on the addresses allocated for instances:
\* associate and disassociate calls from every caller; the driver, the
\* notifier and the RPC may fail.
NextRebind ==
    \E c \in {"t1"} :
        \/ CallAllocateForInstance(c, Users, {"h1"})
        \/ CallAssociate(c, Contexts)
        \/ CallDisassociate(c, Contexts)
        \/ AllocReserve(c, Routed)
        \/ AllocAssign(c, Routed)
        \/ AllocNotify(c, Routed)
        \/ AssocSteps(c, Routed)
        \/ DisSteps(c, Routed)

SpecRebind == Init /\ [][NextRebind]_vars

\* The DNS calls alone: domains are registered, listed and unregistered,
\* and entries are added; the store and the drivers may fail.
NextDomains ==
    \/ DnsSteps(Faulty)
    \/ GetDnsDomainsCall(Faulty)

SpecDomains == Init /\ [][NextDomains]_vars

\* The migration of the instances of project A, with managers that
\* restart on either host at any moment; the driver may fail.
NextRestart ==
    \/ CallMigrateStart("t1", Owners)
    \/ CallMigrateFinish("t2", "t1")
    \/ InitHostFloatingIps(Routed)
    \/ \E c \in Slots : MigSteps(c, Routed)

SpecRestart == InitBootedOwned /\ [][NextRestart]_vars

\* An environment in which no collaborator fails and every service is up.
Calm == [qfaults |-> FALSE, dfaults |-> FALSE, down |-> FALSE, pubif |-> FALSE]

\* Concurrent allocate calls with auto_assigned false and deallocate calls,
\* no quota, store or notifier call failing.
NextUsage ==
    \E c \in Slots :
        \/ CallAllocate(c, Users, {FALSE})
        \/ CallDeallocate(c)
        \/ AllocReserve(c, Calm)
        \/ AllocAssign(c, Calm)
        \/ AllocNotify(c, Calm)
        \/ AllocCommit(c, Calm)
        \/ DeallocSteps(c, Calm)

SpecUsage == Init /\ [][NextUsage]_vars

\* Concurrent binding and unbinding, from either host, of the addresses of
\* the instances of project A by its users: every service is up, and
\* neither the driver, the RPC nor the notifier fails.
NextAgree ==
    \E c \in Slots :
        \/ CallAssociate(c, Owners)
        \/ CallDisassociate(c, Owners)
        \/ AssocRoute(c, Calm)
        \/ AssocDb(c, Calm)
        \/ AssocDriver(c, Calm)
        \/ AssocNotify(c, Calm)
        \/ DisSteps(c, Calm)

SpecAgree == InitBootedOwned /\ [][NextAgree]_vars

\* The release of the floating addresses of an instance by a user of its
\* project, and a disassociate call of the project that arrives while it
\* runs; the driver, the notifier of the local steps and the RPC may fail,
\* and a service may be reported down.
NextTeardown ==
    \E c \in Slots :
        \/ CallDeallocateForInstance("t1", Owners)
        \/ calls["t2"].pc = "idle" /\ CallDisassociate("t2", Owners)
        \/ DfiDis(c, Routed)
        \/ DfiDealloc(c, Routed)
        \/ DisRoute(c, Routed)
        \/ DisDb(c, Routed)
        \/ DisDriver(c, Routed)
        \/ DisNotify(c, Routed)
        \/ DeallocDns(c, Routed)
        \/ DeallocNotify(c, Routed)
        \/ DeallocReserve(c, Routed)
        \/ DeallocRelease(c, Routed)

SpecTeardown == InitInUse /\ [][NextTeardown]_vars

\* ------------------------------------------------------------ properties
\* C1: an allocate with auto_assigned false whose reservation is refused
\* with OverQuota returns FloatingIpLimitExceeded at that step, having made
\* no store assignment, emitted no event and issued no commit or rollback;
\* the store and the quota usage are what they were.
C1_OverQuotaAllocateHasNoEffect ==
    [][\A c \in Slots :
         (/\ At(c, "alloc_reserve")
          /\ calls[c].use_quota
          /\ OverQuota(calls[c].ctx.project_id, 1)
          /\ calls'[c] # calls[c])
         => /\ calls'[c].pc = "done"
            /\ calls'[c].result = "FloatingIpLimitExceeded"
            /\ calls'[c].nStore = 0
            /\ calls'[c].nEvt = 0
            /\ calls'[c].nReserve = 0
            /\ calls'[c].nCommit = 0
            /\ calls'[c].nRollback = 0
            /\ fip' = fip
            /\ quota' = quota]_vars

\* An allocate was refused while a project stood at its limit.
C1_RefusedAtLimit ==
    \E c \in Slots, p \in Projects :
        /\ calls[c].pc = "done"
        /\ calls[c].op = "allocate"
        /\ calls[c].result = "FloatingIpLimitExceeded"
        /\ Total(p) >= QuotaLimit

\* C2: a call of allocate or deallocate that returned, normally or by an
\* exception, after a successful reservation has committed it or rolled it
\* back exactly once.
C2_ReservationSettledOnce ==
    \A c \in Slots :
        (calls[c].pc = "done" /\ calls[c].nReserve = 1)
        => calls[c].nCommit + calls[c].nRollback = 1

\* C3 (as claimed): deallocate, associate and disassociate by a non-admin
\* caller on an address owned by another project all raise NotAuthorized,
\* whatever the flag of the address, its binding and affect_auto_assigned;
\* stated of the calls received while no other call is running.
C3_ForeignCallerAlwaysNotAuthorized ==
    \A ctx \in Contexts, a \in Addrs, h \in Hosts, x \in FixedIPs,
       affect \in BOOLEAN :
        (/\ \A c \in Slots : Free(c)
         /\ ~ctx.is_admin
         /\ fip[a].project_id \notin {None, ctx.project_id})
        => /\ StartDeallocate(ctx, a, affect).result = "NotAuthorized"
           /\ StartAssociate(ctx, h, a, x, affect).result = "NotAuthorized"
           /\ StartDisassociate(ctx, h, a, affect).result = "NotAuthorized"

\* C3 (amended): such a call, received while no other call is running,
\* never gets past its checks and writes nothing.
\* On an auto_assigned address called without affect_auto_assigned,
\* deallocate and associate return silently and disassociate raises
\* CannotDisassociateAutoAssignedFloatingIP; in every other case the three
\* raise NotAuthorized.
C3_ForeignCallerStoppedRecordKept ==
    \A ctx \in Users, a \in Addrs :
        (/\ \A c \in Slots : Free(c)
         /\ fip[a].project_id \notin {None, ctx.project_id})
        => \A affect \in BOOLEAN :
             LET skipped == ~affect /\ fip[a].auto_assigned
                 Stopped(r, res) == /\ r.pc = "done"
                                    /\ r.result = res
                                    /\ r.nStore = 0
                                    /\ r.nDrv = 0
             IN /\ Stopped(StartDeallocate(ctx, a, affect),
                           IF skipped THEN "ok" ELSE "NotAuthorized")
                /\ \A h \in Hosts :
                     /\ Stopped(StartDisassociate(ctx, h, a, affect),
                                IF skipped
                                THEN "CannotDisassociateAutoAssignedFloatingIP"
                                ELSE "NotAuthorized")
                     /\ \A x \in FixedIPs :
                          Stopped(StartAssociate(ctx, h, a, x, affect),
                                  IF skipped THEN "ok" ELSE "NotAuthorized")

\* The last call was turned away with NotAuthorized while project A owns
\* every address, one of them bound: its caller was a user of project B.
C3_ForeignCallerTurnedAway ==
    \E c \in Slots, a \in Addrs :
        /\ calls[c].pc = "done"
        /\ calls[c].op \in {"deallocate", "associate", "disassociate"}
        /\ calls[c].result = "NotAuthorized"
        /\ calls[c].nStore = 0
        /\ \A b \in Addrs : fip[b].project_id = "A"
        /\ fip[a].fixed_ip_id # None

\* C4: in every reachable state an address bound to a fixed address has an
\* owning project.
C4_BoundImpliesOwned ==
    \A a \in Addrs : fip[a].fixed_ip_id # None => fip[a].project_id # None

\* C5: on one host, at most one call is inside the locked section of
\* _associate_floating_ip or _disassociate_floating_ip for one address.
C5_OneCriticalSectionPerHostAndAddress ==
    LET InSection(c) == calls[c].pc \in {"assoc_drv", "assoc_undo",
                                         "assoc_notify", "dis_drv",
                                         "dis_notify"}
    IN \A c1, c2 \in Slots :
         (/\ c1 # c2
          /\ InSection(c1) /\ InSection(c2)
          /\ calls[c1].host = calls[c2].host)
         => calls[c1].a # calls[c2].a

\* Two calls are inside their locked sections on one host, for different
\* addresses.
C5_SectionsOfTwoAddressesOverlap ==
    \E c1, c2 \in Slots :
        /\ c1 # c2
        /\ calls[c1].pc \in {"assoc_drv", "assoc_notify", "dis_drv", "dis_notify"}
        /\ calls[c2].pc \in {"assoc_drv", "assoc_notify", "dis_drv", "dis_notify"}
        /\ calls[c1].host = calls[c2].host
        /\ calls[c1].a # calls[c2].a
        /\ lock[calls[c1].host][calls[c1].a] = c1
        /\ lock[calls[c2].host][calls[c2].a] = c2

\* C6 (as claimed): no two hosts are at a driver command for the same
\* floating address at the same time.
C6_NoTwoHostsDriveOneAddress ==
    \A c1, c2 \in Slots :
        (/\ c1 # c2
         /\ calls[c1].pc \in {"assoc_drv", "dis_drv"}
         /\ calls[c2].pc \in {"assoc_drv", "dis_drv"}
         /\ calls[c1].a = calls[c2].a)
        => calls[c1].host = calls[c2].host

\* C6 (amended): a call runs its driver command on the host the routing
\* rule names for the fixed address the call was routed by: the one
\* requested, for associate; the one read when the call was received, for
\* disassociate, which runs on the receiving host when it finds the
\* service of the instance's host down.
C6_DriverRunsOnRoutedHost ==
    \A c \in Slots :
        /\ calls[c].pc = "assoc_drv"
           => calls[c].host = NetworkHost(calls[c].fixed)
        /\ calls[c].pc = "dis_drv"
           => \/ calls[c].host = NetworkHost(calls[c].routed)
              \/ calls[c].down

\* Two hosts are at a driver command for one floating address, each the
\* authoritative host of the fixed address its call was routed by.
C6_TwoHostsDriveOneAddress ==
    \E c1, c2 \in Slots :
        /\ calls[c1].pc \in {"assoc_drv", "dis_drv"}
        /\ calls[c2].pc = "assoc_drv"
        /\ calls[c1].a = calls[c2].a
        /\ calls[c1].host # calls[c2].host

\* C7: associate received while no other call is running, on an address
\* already bound to the requested fixed address and from a caller who could
\* bind it, returns at once without a
\* previous instance, and without a store write, a driver command, an RPC
\* or an event.
C7_AssociateTwiceIsNoop ==
    \A a \in Addrs, ctx \in Contexts :
        (/\ \A c \in Slots : Free(c)
         /\ fip[a].fixed_ip_id # None
         /\ FloatingIpOwnedByProject(ctx, fip[a]))
        => \A h \in Hosts, affect \in BOOLEAN :
             LET r == StartAssociate(ctx, h, a, fip[a].fixed_ip_id, affect)
             IN /\ r.pc = "done"
                /\ r.result = "ok"
                /\ r.orig = None
                /\ r.nStore = 0 /\ r.nDrv = 0 /\ r.nRpc = 0 /\ r.nEvt = 0

\* The second associate has returned on finding the binding in place, the
\* forwarding rule of the first being installed.
C7_SecondAssociateReturned ==
    \E c \in Slots, a \in Addrs, h \in Hosts :
        /\ calls[c].pc = "done"
        /\ calls[c].op = "associate"
        /\ calls[c].result = "ok"
        /\ calls[c].note = "same"
        /\ calls[c].nStore = 0 /\ calls[c].nDrv = 0
        /\ calls[c].nRpc = 0 /\ calls[c].nEvt = 0
        /\ fip[a].fixed_ip_id # None
        /\ <<a, fip[a].fixed_ip_id>> \in rules[h]

\* C8 (as claimed): disassociate on an address that has no binding raises
\* FloatingIpNotAssociated, for every caller and every flag; stated of the
\* calls received while no other call is running.
C8_UnboundAlwaysNotAssociated ==
    \A ctx \in Contexts, a \in Addrs, h \in Hosts, affect \in BOOLEAN :
        (/\ \A c \in Slots : Free(c)
         /\ fip[a].fixed_ip_id = None)
        => LET r == StartDisassociate(ctx, h, a, affect)
           IN r.pc = "done" /\ r.result = "FloatingIpNotAssociated"

\* C8 (amended): disassociate received while no other call is running, on
\* an address that has no binding, always fails at its checks, having written nothing, run no driver command, sent
\* no RPC and emitted no event.  It raises
\* CannotDisassociateAutoAssignedFloatingIP for an auto_assigned address
\* called without affect_auto_assigned, else NotAuthorized for a caller the
\* ownership check rejects, and FloatingIpNotAssociated otherwise.
C8_UnboundAlwaysFailsUntouched ==
    \A a \in Addrs :
        (/\ \A c \in Slots : Free(c)
         /\ fip[a].fixed_ip_id = None)
        => \A ctx \in Contexts, h \in Hosts, affect \in BOOLEAN :
           LET r == StartDisassociate(ctx, h, a, affect)
           IN /\ r.pc = "done"
              /\ r.nStore = 0 /\ r.nDrv = 0 /\ r.nRpc = 0 /\ r.nEvt = 0
              /\ r.result =
                   IF ~affect /\ fip[a].auto_assigned
                   THEN "CannotDisassociateAutoAssignedFloatingIP"
                   ELSE IF ~ctx.is_admin /\ fip[a].project_id # ctx.project_id
                   THEN "NotAuthorized"
                   ELSE "FloatingIpNotAssociated"

\* The last call, a disassociate, was refused with FloatingIpNotAssociated
\* while no address has a binding and one is owned.
C8_RefusedOnUnbound ==
    \E c \in Slots, a \in Addrs :
        /\ calls[c].pc = "done"
        /\ calls[c].op = "disassociate"
        /\ calls[c].result = "FloatingIpNotAssociated"
        /\ calls[c].nStore = 0
        /\ fip[a].project_id # None
        /\ \A b \in Addrs : fip[b].fixed_ip_id = None

\* C9: when deallocate has released an address, the address has no owning
\* project, no flag and no binding, and is among those the store can hand
\* to the next allocate from its pool.
C9_ReleasedAddressIsAllocatable ==
    [][\A c \in Slots, a \in Addrs :
         (/\ At(c, "dealloc_release")
          /\ calls[c].a = a
          /\ calls'[c].nStore = calls[c].nStore + 1)
         => /\ fip'[a] = Unowned
            /\ a \in Allocatable(PoolOf(a))']_vars

\* An allocate and the deallocate that followed it have both committed:
\* every address is unowned and no usage is left.
C9_RoundTripDone ==
    \E c \in Slots :
        /\ calls[c].pc = "done"
        /\ calls[c].op = "deallocate"
        /\ calls[c].result = "ok"
        /\ calls[c].nStore = 1
        /\ calls[c].nCommit = 1
        /\ started >= 2
        /\ \A a \in Addrs : fip[a] = Unowned
        /\ \A p \in Projects : quota[p].in_use = 0 /\ quota[p].reserved = 0

\* C10: under allocate calls with auto_assigned false, no project owns more
\* addresses that are not auto_assigned than its limit.
C10_OwnedWithinLimit ==
    \A p \in Projects :
        Cardinality({ a \in Addrs : /\ fip[a].project_id = p
                                    /\ ~fip[a].auto_assigned }) <= QuotaLimit

\* ------------------------------------------------------------------ C11
\* C11: when the driver command of the local step fails, the store write
\* of that step is undone before the call returns: a failed associate
\* leaves the address unbound, and a failed disassociate leaves it bound
\* to the fixed address it was bound to.
C11_DriverFailureUndone ==
    [][\A c \in Slots :
          /\ (calls[c].pc = "assoc_undo" /\ calls'[c].pc = "done")
                => fip'[calls[c].a].fixed_ip_id = None
          /\ (calls[c].pc = "dis_drv" /\ calls'[c].pc = "done")
                => fip'[calls[c].a].fixed_ip_id = calls[c].got]_vars

\* ------------------------------------------------------------------ C12
\* C12: when add_floating_ip fails with a process execution error in the
\* local step of associate, no association event is issued, the binding
\* the step wrote is cleared in the store, and the call fails with
\* NoFloatingIpInterface if the text of the error contains
\* 'Cannot find device', with the error the driver raised otherwise.
C12_FailedAddClearsBindingAndRaises ==
    [][\A c \in Slots :
          /\ (calls[c].pc = "assoc_drv" /\ calls'[c].pc # "assoc_notify")
                => /\ calls'[c].pc \in {"assoc_drv", "assoc_undo"}
                   /\ calls'[c].nEvt = calls[c].nEvt
          /\ (calls[c].pc = "assoc_undo" /\ calls'[c].pc # "assoc_undo")
                => /\ calls'[c].pc = "done"
                   /\ calls'[c].nEvt = calls[c].nEvt
                   /\ fip'[calls[c].a].fixed_ip_id = None
                   /\ calls'[c].result =
                        IF \E i \in 1..Len(calls[c].msg) :
                              /\ i + 2 <= Len(calls[c].msg)
                              /\ calls[c].msg[i] = "Cannot"
                              /\ calls[c].msg[i + 1] = "find"
                              /\ calls[c].msg[i + 2] = "device"
                        THEN "NoFloatingIpInterface"
                        ELSE "ProcessExecutionError"]_vars

\* An associate whose driver command failed has returned
\* NoFloatingIpInterface, with no event and no address bound.
C12_HandlerRaisedNoInterface ==
    /\ calls["t1"].pc = "done"
    /\ calls["t1"].op = "associate"
    /\ calls["t1"].result = "NoFloatingIpInterface"
    /\ calls["t1"].nDrv = 1 /\ calls["t1"].nStore = 2 /\ calls["t1"].nEvt = 0
    /\ \A a \in Addrs : fip[a].fixed_ip_id = None

\* ------------------------------------------------------------------ C13
\* C13: a disassociate that found the service of the instance's host down
\* on a multi-host network runs on the receiving host: from there on it
\* sends no RPC, issues no driver command, and clears the binding in the
\* store, whether CONF.public_interface is set or not.
C13_DownServiceMeansNoDriverCall ==
    [][\A c \in Slots :
          (calls[c].down /\ calls[c].pc \in {"dis_db", "dis_drv", "dis_notify"})
             => /\ calls'[c].nDrv = calls[c].nDrv
                /\ calls'[c].nRpc = calls[c].nRpc
                /\ (calls[c].pc = "dis_db" /\ calls'[c].pc # "dis_db")
                      => fip'[calls[c].a].fixed_ip_id = None]_vars

\* ------------------------------------------------------------------ C14
\* C14: when migrate_instance_start and then migrate_instance_finish have
\* run with the same address list and source differs from dest, every
\* address of the list that is owned by the caller's project and bound has
\* dest as its recorded host and its rule installed on a host, each phase
\* has issued one driver command and one store update
\* per such address, and every other address of the list was skipped by
\* both phases, which returned without error.
C14_MigrationMovesEveryLiveAddress ==
    LET s == calls["t1"]
        f == calls["t2"]
        dest == FinishDest(f.host_arg, f.dest)
        listed == { s.addrs[i] : i \in 1..Len(s.addrs) }
        live == { a \in listed :
                    /\ (s.ctx.is_admin \/ fip[a].project_id = s.ctx.project_id)
                    /\ fip[a].fixed_ip_id # None }
    IN (/\ s.pc = "done" /\ s.op = "migrate_start" /\ s.result = "ok"
        /\ f.pc = "done" /\ f.op = "migrate_finish" /\ f.result = "ok"
        /\ s.source # dest /\ s.source # s.dest)
       => /\ \A a \in live :
                /\ fip[a].host = dest
                /\ \E h \in Hosts : <<a, fip[a].fixed_ip_id>> \in rules[h]
          /\ s.nDrv = Cardinality(live) /\ f.nDrv = Cardinality(live)
          /\ s.nStore = Cardinality(live) /\ f.nStore = Cardinality(live)
          /\ s.skipped = listed \ live
          /\ f.skipped = listed \ live

\* Both phases have returned for a list of two addresses, one of them
\* stale, and the other address is recorded on the destination, which the
\* controller named in host.
C14_MigratedOneSkippedOne ==
    LET s == calls["t1"]
        f == calls["t2"]
    IN /\ s.pc = "done" /\ s.op = "migrate_start" /\ s.result = "ok"
       /\ f.pc = "done" /\ f.op = "migrate_finish" /\ f.result = "ok"
       /\ s.source = "h1" /\ s.dest = None /\ f.host_arg = "h2"
       /\ Len(s.addrs) = 2
       /\ Cardinality(f.skipped) = 1
       /\ f.nDrv = 1 /\ s.nDrv = 1
       /\ \E a \in Addrs : a \notin f.skipped /\ fip[a].host = "h2"

\* ------------------------------------------------------------------ C15
\* C15: an address is stale for a caller exactly when the ownership check
\* fails for that caller or the record is bound to no fixed address; a
\* phase that meets a stale address changes nothing for it, does not
\* fail, and goes on with the next address of the list, or returns
\* normally after the last; an address that is not stale is processed.
C15_StaleIsSkippedAndLoopGoesOn ==
    [][/\ \A ctx \in Contexts, a \in Addrs :
             IsStaleFloatingIpAddress(ctx, fip[a])
                <=> \/ (~ctx.is_admin /\ fip[a].project_id # ctx.project_id)
                    \/ fip[a].fixed_ip_id = None
       /\ \A c \in Slots :
            LET r == calls[c]
                stale == \/ (~r.ctx.is_admin /\ fip[r.a].project_id # r.ctx.project_id)
                         \/ fip[r.a].fixed_ip_id = None
            IN (r.pc = "mig_get" /\ calls'[c] # r)
                 => IF stale
                    THEN /\ fip' = fip /\ rules' = rules
                         /\ calls'[c].nDrv = r.nDrv /\ calls'[c].nStore = r.nStore
                         /\ calls'[c].skipped = r.skipped \cup {r.a}
                         /\ IF r.idx < Len(r.addrs)
                            THEN /\ calls'[c].pc = "mig_get"
                                 /\ calls'[c].a = r.addrs[r.idx + 1]
                            ELSE /\ calls'[c].pc = "done"
                                 /\ calls'[c].result = "ok"
                    ELSE calls'[c].pc \in {"mig_remove", "mig_set_host"}]_vars

\* The first phase has returned normally from a list whose first address
\* was stale and whose second was moved.
C15_StaleFirstThenProcessed ==
    LET s == calls["t1"]
    IN /\ s.pc = "done" /\ s.op = "migrate_start" /\ s.result = "ok"
       /\ Len(s.addrs) = 2
       /\ s.addrs[1] \in s.skipped
       /\ s.addrs[2] \notin s.skipped
       /\ s.nDrv = 1 /\ s.nStore = 1

\* ------------------------------------------------------------------ C16
\* C16 (as stated): each phase returns at once, with no store access and
\* no driver command, whenever the address list is empty or source equals
\* dest, both being unset included; migrate_instance_finish takes host for
\* dest when dest is not given.
C16_NoopWheneverSourceEqualsDest ==
    \A c \in Slots :
        LET r == calls[c]
            dest == IF r.op = "migrate_finish"
                    THEN (IF r.host_arg # None /\ r.dest = None
                          THEN r.host_arg ELSE r.dest)
                    ELSE r.dest
        IN (/\ r.pc = "done"
            /\ r.op \in {"migrate_start", "migrate_finish"}
            /\ (r.addrs = << >> \/ r.source = dest))
           => /\ r.result = "ok" /\ r.note = "noop"
              /\ r.nStore = 0 /\ r.nDrv = 0 /\ r.skipped = {}

\* C16 (amended): each phase returns at once, with no store access and no
\* driver command, exactly when the address list is empty or source is
\* set and equals dest; with source unset the list is processed.
\* migrate_instance_finish takes host for dest when dest is not given.
C16_NoopIffEmptyOrSetSourceEqualsDest ==
    \A c \in Slots :
        LET r == calls[c]
            dest == IF r.op = "migrate_finish"
                    THEN (IF r.host_arg # None /\ r.dest = None
                          THEN r.host_arg ELSE r.dest)
                    ELSE r.dest
            skip == r.addrs = << >> \/ (r.source # None /\ r.source = dest)
        IN (r.pc = "done" /\ r.op \in {"migrate_start", "migrate_finish"})
           => IF skip
              THEN /\ r.result = "ok" /\ r.note = "noop"
                   /\ r.nStore = 0 /\ r.nDrv = 0 /\ r.skipped = {}
              ELSE /\ r.note # "noop"
                   /\ (r.result = "ok" =>
                         r.nDrv + Cardinality(r.skipped) = Len(r.addrs))

\* The second phase has returned at once because the host it was given
\* for dest is the source, and a first phase called with source and dest
\* both unset has gone through its list.
C16_FinishSkippedOnHostArgument ==
    LET f == calls["t2"]
    IN /\ f.pc = "done" /\ f.op = "migrate_finish" /\ f.note = "noop"
       /\ f.dest = None /\ f.host_arg = "h1" /\ f.source = "h1"
       /\ f.addrs # << >>
       /\ calls["t1"].nDrv > 0

C17_BoundAlwaysAssociated ==
    \A a \in Addrs :
        (/\ \A c \in Slots : Free(c)
         /\ fip[a].fixed_ip_id # None)
        => \A ctx \in Contexts, affect \in BOOLEAN :
           LET r == StartDeallocate(ctx, a, affect)
           IN r.pc = "done" /\ r.result = "FloatingIpAssociated"

\* C17 (amended): deallocate received while no other call is running, on
\* an address that is bound, stops at its checks: it deletes no DNS entry,
\* emits no event, takes no reservation and writes nothing to the store.
\* It returns normally for an auto_assigned address called without
\* affect_auto_assigned, else fails with NotAuthorized for a caller the
\* ownership check rejects, and with FloatingIpAssociated otherwise.
C17_BoundAlwaysStopsUntouched ==
    \A a \in Addrs :
        (/\ \A c \in Slots : Free(c)
         /\ fip[a].fixed_ip_id # None)
        => \A ctx \in Contexts, affect \in BOOLEAN :
           LET r == StartDeallocate(ctx, a, affect)
           IN /\ r.pc = "done"
              /\ r.nStore = 0 /\ r.nDns = 0 /\ r.nEvt = 0 /\ r.nReserve = 0
              /\ r.result =
                   IF ~affect /\ fip[a].auto_assigned
                   THEN "ok"
                   ELSE IF ~ctx.is_admin /\ fip[a].project_id # ctx.project_id
                   THEN "NotAuthorized"
                   ELSE "FloatingIpAssociated"

\* The last call, a deallocate, was refused with FloatingIpAssociated and
\* the address it named is still owned and bound.
C17_RefusedOnBound ==
    /\ calls["t1"].pc = "done"
    /\ calls["t1"].op = "deallocate"
    /\ calls["t1"].result = "FloatingIpAssociated"
    /\ calls["t1"].nStore = 0 /\ calls["t1"].nEvt = 0
    /\ \E a \in Addrs : fip[a].fixed_ip_id # None /\ fip[a].project_id # None
    /\ \A a \in Addrs : fip[a].fixed_ip_id = None => fip[a].project_id = None

\* ------------------------------------------------------------------ C18
\* C18: deallocate called without affect_auto_assigned on an auto_assigned
\* address returns normally at its first test, whoever calls: no error of
\* the ownership check, no DNS entry deleted, no event, no quota call, no
\* store write; stated of the calls received while no other call is
\* running.
C18_AutoAssignedIsLeftAlone ==
    \A a \in Addrs :
        (/\ \A c \in Slots : Free(c)
         /\ fip[a].auto_assigned)
        => \A ctx \in Contexts :
           LET r == StartDeallocate(ctx, a, FALSE)
           IN /\ r.pc = "done" /\ r.result = "ok" /\ r.note = "skip"
              /\ r.nStore = 0 /\ r.nDns = 0 /\ r.nEvt = 0
              /\ r.nReserve = 0 /\ r.nCommit = 0 /\ r.nRollback = 0

\* A deallocate has returned at its first test while every owned address
\* is auto_assigned, and one is: the address it named is still owned.
C18_SkippedAndStillOwned ==
    /\ calls["t1"].pc = "done"
    /\ calls["t1"].op = "deallocate"
    /\ calls["t1"].result = "ok"
    /\ calls["t1"].note = "skip"
    /\ \E a \in Addrs : fip[a].auto_assigned /\ fip[a].project_id # None
    /\ \A a \in Addrs : fip[a].project_id # None => fip[a].auto_assigned

\* ------------------------------------------------------------------ C20
\* C20: in deallocate the reservation of minus one unit is never fatal:
\* whether it is taken or fails, the call goes on to the release; when it
\* failed nothing is reserved, and a release that succeeds then ends the
\* call normally with no commit and no rollback.  The commit is reached
\* only with a reservation taken, and deallocate never rolls back.
C20_FailedReserveIsNotFatal ==
    [][\A c \in Slots :
          LET r == calls[c]
          IN /\ (r.pc = "dealloc_reserve" /\ calls'[c] # r)
                   => /\ calls'[c].pc = "dealloc_release"
                      /\ fip' = fip
                      /\ (calls'[c].nReserve = r.nReserve)
                            => (quota' = quota /\ calls'[c].resv = 0)
             /\ (r.pc = "dealloc_release" /\ r.nReserve = 0
                   /\ calls'[c].nStore = r.nStore + 1)
                   => /\ fip'[r.a].project_id = None
                      /\ calls'[c].pc = "done"
                      /\ calls'[c].result = "ok"
                      /\ calls'[c].nCommit = 0 /\ calls'[c].nRollback = 0
                      /\ quota' = quota
             /\ (calls'[c].pc = "dealloc_commit") => calls'[c].nReserve = 1
             /\ (calls'[c].op = "deallocate") => calls'[c].nRollback = 0]_vars

\* A deallocate of an address that counts against the quota has returned
\* normally without a reservation: every address is unowned and the usage
\* of the project is still one.
C20_ReleasedWithoutReservation ==
    \E c \in Slots :
        /\ calls[c].pc = "done"
        /\ calls[c].op = "deallocate"
        /\ calls[c].result = "ok"
        /\ calls[c].nStore = 1 /\ calls[c].nReserve = 0 /\ calls[c].nCommit = 0
        /\ started = 2
        /\ \A a \in Addrs : fip[a] = Unowned
        /\ \E p \in Projects : quota[p].in_use = 1

\* ------------------------------------------------------------------ C21
\* C21: an allocate called with auto_assigned, and a deallocate that found
\* its record flagged auto_assigned, make no quota call: no step of such a
\* call changes the usage of any project, and the call counts no reserve,
\* no commit and no rollback.  A deallocate that passes its checks uses
\* the quota exactly when the record it fetched is not flagged.
C21_AutoAssignedMakesNoQuotaCall ==
    [][\A c \in Slots :
          LET r == calls[c]
              n == calls'[c]
          IN /\ (/\ r.op \in {"allocate", "allocate_for_instance", "deallocate"}
                 /\ r.pc \in {"alloc_reserve", "alloc_assign", "alloc_notify",
                              "alloc_commit", "alloc_rollback", "dealloc_dns",
                              "dealloc_notify", "dealloc_reserve",
                              "dealloc_release", "dealloc_commit"}
                 /\ ~r.use_quota
                 /\ n # r)
                => /\ quota' = quota
                   /\ n.nReserve = 0 /\ n.nCommit = 0 /\ n.nRollback = 0
                   /\ n.pc \notin {"alloc_commit", "alloc_rollback", "dealloc_commit"}
             /\ (r.pc \in {"idle", "done"} /\ n.pc = "dealloc_dns")
                => n.use_quota = ~fip[n.a].auto_assigned
             /\ (r.pc \in {"idle", "done"} /\ n.op = "allocate_for_instance")
                => ~n.use_quota]_vars

\* A deallocate with affect_auto_assigned has passed its reservation step
\* on an address that is flagged auto_assigned, with no reservation taken
\* and no usage recorded for any project.
C21_AutoAssignedPastReserve ==
    \E c \in Slots :
        /\ calls[c].op = "deallocate"
        /\ calls[c].pc = "dealloc_release"
        /\ fip[calls[c].a].auto_assigned
        /\ ~calls[c].use_quota
        /\ calls[c].nReserve = 0 /\ calls[c].resv = 0
        /\ \A p \in Projects : quota[p].in_use = 0 /\ quota[p].reserved = 0

\* C22: an associate call on an address that passes the skip and ownership
\* checks and is bound to another fixed address first disassociates the old
\* binding, then binds the new one: the call remembers the instance of the
\* old binding, its nested disassociate goes on to unbind, and a call that
\* succeeds leaves the address bound to the requested fixed address and
\* returns the remembered instance; on an unbound address it returns none.
C22_RebindDisassociatesThenBinds ==
    [][\A c \in Slots :
          LET r == calls[c]
              n == calls'[c]
          IN /\ (r.pc \in {"idle", "done"} /\ n.op = "associate" /\ n.pc = "dis_get")
                => /\ fip[n.a].fixed_ip_id # None
                   /\ n.orig = FixedIpGet(fip[n.a].fixed_ip_id).instance_uuid
             /\ (r.pc \in {"idle", "done"} /\ n.op = "associate"
                 /\ n.pc = "assoc_route")
                => fip[n.a].fixed_ip_id = None /\ n.orig = None
             /\ (r.op = "associate" /\ r.pc = "dis_get" /\ n # r)
                => n.pc = "dis_route"
             /\ (r.op = "associate" /\ r.pc = "assoc_db" /\ n.pc = "assoc_drv")
                => fip[r.a].fixed_ip_id = None
             /\ (r.op = "associate" /\ r.pc = "assoc_notify" /\ n.pc = "done"
                 /\ n.result = "ok")
                => /\ fip'[r.a].fixed_ip_id = r.fixed
                   /\ n.orig = r.orig]_vars

\* C23: an associate call with affect_auto_assigned on an auto_assigned
\* address bound to another fixed address is never refused with
\* CannotDisassociateAutoAssignedFloatingIP.
C23_AutoAssignedRebindNotRefused ==
    \A c \in Slots :
        ~(/\ calls[c].pc = "done"
          /\ calls[c].op = "associate"
          /\ calls[c].result = "CannotDisassociateAutoAssignedFloatingIP")

\* C24: on one host, a driver command of migrate_instance_start or
\* migrate_instance_finish for an address is never issued while an
\* associate or disassociate call holds the lock of that address on that
\* host, that is, inside its local binding or unbinding critical section.
C24_MigrationCommandsOutsideCriticalSection ==
    [][\A c \in Slots :
          LET r == calls[c]
              n == calls'[c]
          IN (/\ r.op \in {"migrate_start", "migrate_finish"}
              /\ \/ r.pc \in {"mig_remove", "mig_add"} /\ n.nDrv = r.nDrv + 1
                 \/ r.pc = "mig_conntrack" /\ n # r)
             => lock[r.host][r.a] = None]_vars

\* C25: an allocate call that fails after its reservation succeeded ends
\* by rolling the reservation back, and the address it was assigned, if
\* any, is not left owned by the project.
C25_FailedAllocateLeavesNothing ==
    [][\A c \in Slots :
          LET r == calls[c]
              n == calls'[c]
          IN (/\ r.op = "allocate"
              /\ r.resv = 1
              /\ n.pc = "done"
              /\ n.result # "ok")
             => /\ r.pc = "alloc_rollback"
                /\ n.nRollback = 1
                /\ quota' = QuotaRollback(r.ctx.project_id, 1)
                /\ r.a # NoAddr => fip'[r.a].project_id = None]_vars

\* C26: a disassociate call without affect_auto_assigned on an
\* auto_assigned address fails with CannotDisassociateAutoAssignedFloatingIP
\* whoever calls and whether or not the address is bound, and the call
\* that ends with this error has changed no record and no driver rule,
\* and has sent no event, no driver command and no RPC.
C26_AutoAssignedGuardComesFirst ==
    [][\A c \in Slots :
          LET r == calls[c]
              n == calls'[c]
          IN /\ (/\ \A d \in Slots : Free(d)
                 /\ n # r
                 /\ n.op = "disassociate")
                => \A a \in {b \in Addrs : fip[b].auto_assigned} :
                     \A ctx \in Contexts, host \in Hosts :
                       StartDisassociate(ctx, host, a, FALSE)
                       = Finish([IdleCall EXCEPT !.op = "disassociate"],
                                "CannotDisassociateAutoAssignedFloatingIP")
             /\ (/\ n # r
                 /\ n.pc = "done"
                 /\ n.result = "CannotDisassociateAutoAssignedFloatingIP")
                => /\ fip' = fip
                   /\ rules' = rules
                   /\ lock' = lock
                   /\ n.nStore = 0 /\ n.nDrv = 0 /\ n.nEvt = 0
                   /\ n.nRpc = 0]_vars

C26_RefusedOnBoundAutoAssigned ==
    \E c \in Slots, a \in Addrs :
        /\ calls[c].pc = "done"
        /\ calls[c].op = "disassociate"
        /\ calls[c].result = "CannotDisassociateAutoAssignedFloatingIP"
        /\ fip[a].auto_assigned
        /\ fip[a].fixed_ip_id # None
        /\ <<a, fip[a].fixed_ip_id>> \in rules[fip[a].host]

\* C27: when delete_dns_domain returns for a domain that was registered,
\* the domain is absent from the store and from the DNS driver of its
\* scope: the instance driver for a private domain, the floating driver
\* for a public one.
C27_DeleteUndoesRegistration ==
    [][LET d == dns'.last.domain
       IN (/\ dns'.last.op = "delete_dns_domain"
           /\ dns'.last.result = "ok"
           /\ d \in dns.registered)
          => /\ d \notin dns'.registered
             /\ dns.ref[d].scope = "private" => d \notin dns'.instance
             /\ dns.ref[d].scope = "public" => d \notin dns'.floating]_vars

\* C28: get_dns_domains returns one entry for each domain of the store
\* that the floating or the instance driver lists, and no other; the
\* entry has the scope of the record and its zone when private, its
\* project when public; the call does not fail.
C28_ListedAreRegisteredAndKnownToADriver ==
    [][(dns'.last.op = "get_dns_domains")
       => /\ dns'.last.result = "ok"
          /\ \A d \in Domains :
               LET known == /\ d \in dns.registered
                            /\ d \in dns.floating \cup dns.instance
                   listed == { e \in dns'.last.listed : e.domain = d }
               IN /\ ~known => listed = {}
                  /\ known =>
                       /\ Cardinality(listed) = 1
                       /\ \A e \in listed :
                            /\ e.scope = dns.ref[d].scope
                            /\ e.scope \in {"private", "public"}
                            /\ e.scope = "private"
                               => /\ DOMAIN e = {"domain", "scope", "availability_zone"}
                                  /\ e.availability_zone = dns.ref[d].availability_zone
                                  /\ e.availability_zone \in Zones
                            /\ e.scope = "public"
                               => /\ DOMAIN e = {"domain", "scope", "project"}
                                  /\ e.project = dns.ref[d].project_id
                                  /\ e.project \in Projects
          /\ UNCHANGED <<dns.registered, dns.ref, dns.floating, dns.instance,
                         dns.entries>>]_vars

C28_RegisteredDomainOmitted ==
    /\ dns.last.op = "get_dns_domains"
    /\ dns.last.listed = {}
    /\ dns.registered # {}
    /\ \A d \in dns.registered : d \notin dns.floating \cup dns.instance

\* C29 as stated: every associate or disassociate call that passes its
\* checks runs its local step on the authoritative host of the fixed
\* address (the host of the instance on a multi_host network, the host of
\* the network otherwise), in-process when that host is the manager's own
\* and by one RPC otherwise, an RPC error ending the call.
C29_LocalStepOnAuthoritativeHost ==
    [][\A c \in Slots :
          LET r == calls[c]
              n == calls'[c]
              x == IF r.pc = "assoc_route" THEN r.fixed ELSE r.routed
          IN (r.pc \in {"assoc_route", "dis_route"} /\ n # r)
             => IF NetworkHost(x) = r.host
                THEN /\ n.pc = (IF r.pc = "assoc_route" THEN "assoc_db" ELSE "dis_db")
                     /\ n.host = r.host
                     /\ n.nRpc = r.nRpc
                ELSE \/ /\ n.pc = (IF r.pc = "assoc_route" THEN "assoc_db" ELSE "dis_db")
                        /\ n.host = NetworkHost(x)
                        /\ n.nRpc = r.nRpc + 1
                     \/ /\ n.pc = "done"
                        /\ n.result = "Error"]_vars

\* C29, amended: the same, except that a disassociate call that finds the
\* network service of the instance's host down on a multi_host network
\* runs its local step in-process, without an RPC; and each call passes
\* once through the routing and once through the local step.
C29_LocalStepRoutedOnce ==
    [][\A c \in Slots :
          LET r == calls[c]
              n == calls'[c]
              x == IF r.pc = "assoc_route" THEN r.fixed ELSE r.routed
              local == IF r.pc = "assoc_route" THEN "assoc_db" ELSE "dis_db"
          IN /\ (r.pc \in {"assoc_route", "dis_route"} /\ n # r)
                => \/ /\ r.pc = "dis_route"
                      /\ IsMultiHost(x)
                      /\ n.down
                      /\ n.pc = local
                      /\ n.host = r.host
                      /\ n.nRpc = r.nRpc
                   \/ /\ ~n.down
                      /\ IF NetworkHost(x) = r.host
                         THEN /\ n.pc = local
                              /\ n.host = r.host
                              /\ n.nRpc = r.nRpc
                         ELSE \/ /\ n.pc = local
                                 /\ n.host = NetworkHost(x)
                                 /\ n.nRpc = r.nRpc + 1
                              \/ /\ n.pc = "done"
                                 /\ n.result = "Error"
             /\ (n.pc = "assoc_db" /\ r.pc # "assoc_db") => r.pc = "assoc_route"
             /\ (n.pc = "dis_db" /\ r.pc # "dis_db") => r.pc = "dis_route"
             /\ (n.pc = "assoc_route" /\ r.pc # "assoc_route")
                => r.pc \in {"idle", "done", "assoc_get", "dis_db", "dis_notify"}
             /\ (n.pc = "dis_route" /\ r.pc # "dis_route")
                => r.pc \in {"idle", "done", "dis_get"}
             /\ (n.pc = "dis_get" /\ r.pc # "dis_get")
                => r.pc \in {"idle", "done", "assoc_get"}
             /\ (r.pc = "assoc_db" /\ n # r)
                => \/ n.pc = "assoc_drv" /\ n.nStore = r.nStore + 1
                   \/ n.pc = "done" /\ n.result = "ok"
             /\ (r.pc = "dis_db" /\ n # r)
                => \/ n.pc \in {"dis_drv", "dis_notify"} /\ n.nStore = r.nStore + 1
                   \/ n.pc \in {"done", "assoc_route"} /\ n.nStore = r.nStore]_vars

C29_UnboundHereForDownHost ==
    \E c \in Slots :
        /\ calls[c].op = "disassociate"
        /\ calls[c].pc = "dis_db"
        /\ calls[c].down
        /\ calls[c].nRpc = 0
        /\ NetworkHost(calls[c].routed) # calls[c].host

\* C30: a local binding step that finds the address bound already to the
\* fixed address, and a local unbinding step that finds the address
\* clear, stop as a success: no record and no driver rule changes, and
\* the step makes no driver call and sends no event.
C30_RacedStepStopsAsSuccess ==
    [][\A c \in Slots :
          LET r == calls[c]
              n == calls'[c]
          IN /\ (r.pc = "assoc_db" /\ n # r /\ DbAssociateIsNoop(r.a, r.fixed))
                => /\ n.pc = "done"
                   /\ n.result = "ok"
                   /\ n.nDrv = r.nDrv /\ n.nEvt = r.nEvt
                   /\ fip' = fip /\ rules' = rules /\ lock' = lock
             /\ (r.pc = "dis_db" /\ n # r /\ fip[r.a].fixed_ip_id = None)
                => /\ \/ n.pc = "done" /\ n.result = "ok"
                      \/ r.nested /\ n.pc = "assoc_route"
                   /\ n.nDrv = r.nDrv /\ n.nEvt = r.nEvt
                   /\ fip' = fip /\ rules' = rules /\ lock' = lock]_vars

C30_RacedBehindTheOtherCall ==
    /\ calls["t1"].pc = "done"
    /\ calls["t1"].result = "ok"
    /\ calls["t1"].note = "raced"
    /\ calls["t1"].nDrv = 0
    /\ calls["t1"].nEvt = 0
    /\ calls["t1"].op \in {"associate", "disassociate"}
    /\ calls["t2"].pc = "done"
    /\ calls["t2"].result = "ok"
    /\ calls["t2"].op = calls["t1"].op
    /\ calls["t2"].nEvt = 1

\* C31: migrate_instance_start, for each address that is not stale, removes
\* the forwarding rule, then cleans the tracked connections, and only
\* then clears the host of the record; the owner, the binding and the
\* auto_assigned flag of the record are left as they were.
C31_RuleThenConntrackThenHost ==
    [][\A c \in Slots :
          LET r == calls[c]
              n == calls'[c]
          IN r.op = "migrate_start"
             => /\ (r.pc = "mig_get" /\ n # r /\ n.skipped = r.skipped)
                   => n.pc = "mig_remove" /\ fip' = fip /\ rules' = rules
                /\ (r.pc = "mig_remove" /\ n # r)
                   => /\ fip' = fip
                      /\ \/ /\ n.pc = "mig_conntrack"
                            /\ <<r.a, fip[r.a].fixed_ip_id>> \notin rules'[r.host]
                         \/ /\ n.pc = "done"
                            /\ n.result = "ProcessExecutionError"
                /\ (r.pc = "mig_conntrack" /\ n # r)
                   => /\ fip' = fip
                      /\ rules' = rules
                      /\ \/ n.pc = "mig_clear_host"
                         \/ n.pc = "done" /\ n.result = "ProcessExecutionError"
                /\ (r.pc = "mig_clear_host" /\ n # r)
                   => /\ fip' = [fip EXCEPT ![r.a].host = None]
                      /\ rules' = rules
                /\ (n.pc = "mig_clear_host" /\ r.pc # n.pc) => r.pc = "mig_conntrack"
                /\ (n.pc = "mig_conntrack" /\ r.pc # n.pc) => r.pc = "mig_remove"
                /\ (r.pc \notin {"mig_clear_host", "idle", "done"}) => fip' = fip]_vars

C31_HostClearedBindingKept ==
    \E c \in Slots, a \in Addrs :
        /\ calls[c].op = "migrate_start"
        /\ calls[c].pc = "done"
        /\ calls[c].result = "ok"
        /\ calls[c].nDrv = 1 /\ calls[c].nStore = 1
        /\ fip[a].host = None
        /\ fip[a].fixed_ip_id # None
        /\ fip[a].project_id # None
        /\ \A h \in Hosts : <<a, fip[a].fixed_ip_id>> \notin rules[h]

\* C32: migrate_instance_finish, for each address that is not stale, sets
\* the host of the record to dest before it issues add_floating_ip, and
\* adds the rule for the fixed address the record is bound to; when the
\* driver fails the host is dest already and the phase ends there,
\* without processing the addresses that remain.
C32_HostSetBeforeRuleAdded ==
    [][\A c \in Slots :
          LET r == calls[c]
              n == calls'[c]
              dest == FinishDest(r.host_arg, r.dest)
          IN r.op = "migrate_finish"
             => /\ (r.pc = "mig_get" /\ n # r /\ n.skipped = r.skipped)
                   => n.pc = "mig_set_host" /\ fip' = fip /\ rules' = rules
                /\ (r.pc = "mig_set_host" /\ n # r)
                   => /\ fip' = [fip EXCEPT ![r.a].host = dest]
                      /\ rules' = rules
                      /\ n.pc = "mig_add"
                      /\ n.nDrv = r.nDrv
                /\ (n.pc = "mig_add" /\ r.pc # n.pc) => r.pc = "mig_set_host"
                /\ (r.pc = "mig_add" /\ n # r)
                   => /\ fip' = fip
                      /\ fip[r.a].host = dest
                      /\ r.got = fip[r.a].fixed_ip_id
                      /\ n.nDrv = r.nDrv + 1
                      /\ \/ /\ rules' = [rules EXCEPT ![r.host] =
                                             @ \cup {<<r.a, fip[r.a].fixed_ip_id>>}]
                            /\ n.result # "ProcessExecutionError"
                         \/ /\ rules' = rules
                            /\ n.pc = "done"
                            /\ n.result = "ProcessExecutionError"
                            /\ n.nStore = r.nStore]_vars

C32_FailedAddLeavesHostAndTheRest ==
    \E c \in Slots :
        LET r == calls[c]
        IN /\ r.op = "migrate_finish"
           /\ r.pc = "done"
           /\ r.result = "ProcessExecutionError"
           /\ Len(r.addrs) = 2
           /\ r.skipped = {}
           /\ r.nStore = 1 /\ r.nDrv = 1
           /\ FinishDest(r.host_arg, r.dest) # None
           /\ fip[r.addrs[1]].host = FinishDest(r.host_arg, r.dest)
           /\ fip[r.addrs[2]].host = None

\* C33: the ownership check lets every administrator through whatever the
\* owner of the record; it lets another caller through exactly when the
\* record is owned by the project of the caller, and raises NotAuthorized
\* for a record without owner as for a record of another project.  The
\* check is observed in the disassociate call that reaches it.
C33_OwnershipCheck ==
    (\A c \in Slots : Free(c))
    => \A ctx \in Contexts, host \in Hosts, a \in Addrs :
         LET owner == fip[a].project_id
             res == StartDisassociate(ctx, host, a, TRUE).result
         IN /\ FloatingIpOwnedByProject(ctx, fip[a]) <=> res # "NotAuthorized"
            /\ ctx.is_admin => res # "NotAuthorized"
            /\ (~ctx.is_admin /\ owner = ctx.project_id) => res # "NotAuthorized"
            /\ (~ctx.is_admin /\ owner = None) => res = "NotAuthorized"
            /\ (~ctx.is_admin /\ owner \notin {None, ctx.project_id})
               => res = "NotAuthorized"

C33_TurnedAwayWithBothKindsOfRecord ==
    /\ calls["t1"].pc = "done"
    /\ calls["t1"].op = "disassociate"
    /\ calls["t1"].result = "NotAuthorized"
    /\ \E a, b \in Addrs :
         /\ fip[a].project_id = None
         /\ fip[b].project_id = "A"
    /\ \E ctx \in Users, a, b \in Addrs :
         /\ ~FloatingIpOwnedByProject(ctx, fip[a])
         /\ ~FloatingIpOwnedByProject(ctx, fip[b])
         /\ fip[a].project_id # fip[b].project_id

\* C34: an associate call without affect_auto_assigned on an auto_assigned
\* address returns none at once, whoever calls and whatever the address
\* is bound to: no NotAuthorized, no change of a record or of a driver
\* rule, no nested disassociate, no driver command, no RPC, no event.
C34_AutoAssignedIsSkipped ==
    [][\A c \in Slots :
          LET r == calls[c]
              n == calls'[c]
          IN (/\ \A d \in Slots : Free(d)
              /\ n # r
              /\ n.op = "associate")
             => /\ \A a \in {b \in Addrs : fip[b].auto_assigned} :
                     \A ctx \in Contexts, x \in FixedIPs :
                        AssocChecks(ctx, fip[a], x, FALSE) = "skip"
                /\ \A a \in {b \in Addrs : fip[b].auto_assigned} :
                     \A ctx \in Users, host \in Hosts :
                        LET s == StartAssociate(ctx, host, a, "x1", FALSE)
                        IN s.pc = "done" /\ s.note = "skip"
                /\ (n.pc = "done" /\ n.note = "skip")
                   => /\ n.result = "ok"
                      /\ n.orig = None
                      /\ n.nStore = 0 /\ n.nDrv = 0 /\ n.nRpc = 0
                      /\ n.nEvt = 0
                      /\ fip' = fip
                      /\ rules' = rules
                      /\ lock' = lock]_vars

C34_SkippedOnBoundAutoAssigned ==
    \E c \in Slots, a \in Addrs :
        /\ calls[c].pc = "done"
        /\ calls[c].op = "associate"
        /\ calls[c].result = "ok"
        /\ calls[c].note = "skip"
        /\ fip[a].auto_assigned
        /\ fip[a].fixed_ip_id # None
        /\ <<a, fip[a].fixed_ip_id>> \in rules[fip[a].host]

\* C35: once the first phase of a migration has cleared the host of an
\* address and until the second phase is called, a manager that restarts
\* on any host issues no add_floating_ip for that address: its scan adds
\* rules only for bound addresses whose recorded host is the host that
\* restarts.
C35_RestartLeavesMigratingAddressAlone ==
    [][(calls' = calls /\ rules' # rules)
       => /\ fip' = fip /\ started' = started
          /\ \A h \in Hosts, a \in Addrs, x \in FixedIPs :
               (<<a, x>> \in rules'[h] /\ <<a, x>> \notin rules[h])
               => fip[a].host = h /\ fip[a].fixed_ip_id = x
          /\ LET s == calls["t1"]
                 live == { i \in 1..Len(s.addrs) : s.addrs[i] \notin s.skipped }
                 processed ==
                     { s.addrs[i] : i \in { k \in live :
                         Cardinality({ j \in live : j <= k }) <= s.nStore } }
             IN (/\ s.op = "migrate_start"
                 /\ s.pc = "done"
                 /\ calls["t2"].pc = "idle")
                => \A a \in processed, h \in Hosts, x \in FixedIPs :
                     <<a, x>> \in rules'[h] <=> <<a, x>> \in rules[h]]_vars

C35_RestartedInTheWindow ==
    LET s == calls["t1"]
    IN /\ s.op = "migrate_start"
       /\ s.pc = "done"
       /\ s.result = "ProcessExecutionError"
       /\ s.note = "clean_conntrack"
       /\ Len(s.addrs) = 2
       /\ s.skipped = {}
       /\ s.nStore = 1 /\ s.nDrv = 2
       /\ calls["t2"].pc = "idle"
       /\ fip[s.addrs[1]].host = None
       /\ fip[s.addrs[1]].fixed_ip_id # None
       /\ \A h \in Hosts : <<s.addrs[1], fip[s.addrs[1]].fixed_ip_id>> \notin rules[h]
       /\ fip[s.addrs[2]].host = NetworkHost(fip[s.addrs[1]].fixed_ip_id)
       /\ <<s.addrs[2], fip[s.addrs[2]].fixed_ip_id>> \in rules[fip[s.addrs[2]].host]

\* C36: when no call is in flight, after concurrent allocate(auto_assigned
\* false) and deallocate calls none of whose quota, store or notifier calls
\* failed, the committed usage of a project is the number of addresses it
\* owns that are not auto_assigned; two concurrent deallocates of one
\* address take one unit only.
C36_UsageEqualsOwned ==
    (\A c \in Slots : Free(c))
    => \A p \in Projects :
         /\ quota[p].reserved = 0
         /\ quota[p].in_use =
              Cardinality({ a \in Addrs : /\ fip[a].project_id = p
                                          /\ ~fip[a].auto_assigned })

\* C37: when no call is in flight, after concurrent associate and
\* disassociate calls made on any hosts with every service up and no
\* driver failure, the forwarding rules agree with the store: a rule
\* floating->fixed is installed on some host exactly when the store binds
\* the floating address to that fixed address, and on one host only.
C37_RulesAgreeWithStore ==
    (\A c \in Slots : Free(c))
    => \A a \in Addrs, x \in FixedIPs :
         /\ (\E h \in Hosts : <<a, x>> \in rules[h]) <=> fip[a].fixed_ip_id = x
         /\ Cardinality({ h \in Hosts : <<a, x>> \in rules[h] }) <= 1

\* C38: an associate that makes a new binding tags the record with the
\* host that runs the local binding step, which is the authoritative host
\* of the requested fixed address (the host of its instance on a
\* multi_host network, the host of its network otherwise) whether the step
\* is run in-process or reached through RPC, and the forwarding rule is
\* added on that host; when the call returns successfully the rule is
\* there and the record, if still bound as the call bound it, names it.
C38_HostIsWhereTheRuleIs ==
    [][\A c \in Slots :
          LET r == calls[c]  n == calls'[c]
              auth == NetworkHost(r.fixed)
          IN /\ (r.pc = "assoc_db" /\ n.pc = "assoc_drv")
                => /\ r.host = auth
                   /\ fip'[r.a].fixed_ip_id = r.fixed
                   /\ fip'[r.a].host = auth
                   /\ n.host = auth
             /\ (r.pc = "assoc_drv" /\ n.pc = "assoc_notify")
                => /\ r.host = auth
                   /\ rules' = [rules EXCEPT ![auth] = @ \cup {<<r.a, r.fixed>>}]
             /\ (r.pc = "assoc_notify" /\ n.pc = "done" /\ n.result = "ok")
                => /\ r.host = auth
                   /\ <<r.a, r.fixed>> \in rules'[auth]
                   /\ fip'[r.a].fixed_ip_id = r.fixed => fip'[r.a].host = auth]_vars

C38_BoundThroughRpc ==
    \E c \in Slots, a \in Addrs :
        /\ calls[c].op = "associate"
        /\ calls[c].pc = "done"
        /\ calls[c].result = "ok"
        /\ calls[c].nRpc = 1 /\ calls[c].nStore = 1 /\ calls[c].nDrv = 1
        /\ fip[a].fixed_ip_id = "x2"
        /\ fip[a].host = "h2"
        /\ <<a, "x2">> \in rules["h2"]
        /\ <<a, "x2">> \notin rules["h1"]

C40_InstanceAddressesReleased ==
    [][\A c \in Slots :
          LET r == calls[c]  n == calls'[c]
          IN r.op = "deallocate_for_instance"
             => /\ (/\ r.pc = "dfi_dis"
                    /\ n # r
                    /\ FloatingIpOwnedByProject(r.ctx, fip[r.a])
                    /\ fip[r.a].fixed_ip_id = None)
                   => /\ fip' = fip
                      /\ n.nStore = r.nStore /\ n.nDrv = r.nDrv
                      /\ IF r.a \in r.autos
                         THEN n.pc = "dfi_dealloc" /\ n.a = r.a
                         ELSE IF r.idx < Len(r.addrs)
                         THEN n.pc = "dfi_dis" /\ n.a = r.addrs[r.idx + 1]
                         ELSE n.pc = "done" /\ n.result = "ok"
                /\ (r.pc # "done" /\ n.pc = "done" /\ n.result = "ok")
                   => /\ \A a \in Addrs : fip'[a].fixed_ip_id # n.fixed
                      /\ n.addrs = r.addrs /\ n.autos = r.autos
                      /\ \A i \in 1..Len(n.addrs) :
                           LET a == n.addrs[i]
                           IN IF a \in n.autos
                              THEN fip'[a] = Unowned
                              ELSE /\ fip'[a].fixed_ip_id = None
                                   /\ fip'[a].host = None
                                   /\ fip'[a].project_id = "A"
                                   /\ ~fip'[a].auto_assigned]_vars

C40_PassedOverOneReleasedTheOther ==
    LET r == calls["t1"]
    IN /\ r.op = "deallocate_for_instance"
       /\ r.pc = "done"
       /\ r.result = "ok"
       /\ r.note = "ignored"
       /\ Len(r.addrs) = 2
       /\ r.addrs[1] \notin r.autos
       /\ r.addrs[2] \in r.autos
       /\ r.nStore = 2
       /\ calls["t2"].op = "disassociate"
       /\ calls["t2"].pc = "done"
       /\ calls["t2"].result = "ok"
       /\ fip[r.addrs[1]].project_id = "A"
       /\ fip[r.addrs[1]].fixed_ip_id = None
       /\ fip[r.addrs[2]] = Unowned
====
